---- MODULE Spec2Model ----
(***************************************************************************)
(* The allocation engine of the job scheduler (src/lib/scheduler-utils.ts, *)
(* latest version of allocateJobs and getCapacityForDate) as a state       *)
(* machine.  Hours are JavaScript numbers, so they are modelled as IEEE    *)
(* 754 binary64 values with round-to-nearest-even addition and             *)
(* subtraction; dates are calendar days and date strings are their         *)
(* yyyy-MM-dd fields.                                                      *)
(***************************************************************************)
EXTENDS Integers, Sequences, FiniteSets, TLC

(***************************************************************************)
(* JavaScript numbers.  A non-negative number x is held as the integer     *)
(* x * 2^FractionBits, written in NumLimbs limbs of LimbBits bits, limb 1  *)
(* the least significant.  The hours entered are 0 or lie in [2^-4, 2^7),  *)
(* where a binary64 value is a multiple of 2^-56; sums and differences of  *)
(* such values stay multiples of 2^-56 below 2^8, so the representation is *)
(* exact and only the rounding to 53 significant bits has to be carried    *)
(* out.                                                                    *)
(***************************************************************************)
LimbBits == 16

LimbBase == 65536

NumLimbs == 4

FractionBits == 56

SignificandBits == 53

RECURSIVE Pow2(_)
Pow2(n) ==
  IF n = 0 THEN 1 ELSE 2 * Pow2(n - 1)

Zero ==
  <<0, 0, 0, 0>>

OneUnit(u) ==
  <<u, 0, 0, 0>>

RECURSIVE LessFrom(_, _, _)
LessFrom(a, b, i) ==
  IF i = 0 THEN FALSE
  ELSE IF a[i] # b[i] THEN a[i] < b[i]
  ELSE LessFrom(a, b, i - 1)

\* a < b on numbers
NumLess(a, b) ==
  LessFrom(a, b, NumLimbs)

NumLE(a, b) ==
  ~NumLess(b, a)

RECURSIVE AddFrom(_, _, _, _)
AddFrom(a, b, i, carry) ==
  IF i > NumLimbs THEN <<>>
  ELSE LET s == a[i] + b[i] + carry
       IN <<s % LimbBase>> \o AddFrom(a, b, i + 1, s \div LimbBase)

\* the exact sum, before rounding
AddExact(a, b) ==
  AddFrom(a, b, 1, 0)

RECURSIVE SubFrom(_, _, _, _)
SubFrom(a, b, i, borrow) ==
  IF i > NumLimbs THEN <<>>
  ELSE LET s == a[i] - b[i] - borrow
       IN <<IF s < 0 THEN s + LimbBase ELSE s>>
            \o SubFrom(a, b, i + 1, IF s < 0 THEN 1 ELSE 0)

\* the exact difference a - b for a >= b, before rounding
SubExact(a, b) ==
  SubFrom(a, b, 1, 0)

RECURSIVE BitsOf(_)
BitsOf(n) ==
  IF n = 0 THEN 0 ELSE 1 + BitsOf(n \div 2)

RECURSIVE BitLengthFrom(_, _)
BitLengthFrom(a, i) ==
  IF i = 0 THEN 0
  ELSE IF a[i] # 0 THEN LimbBits * (i - 1) + BitsOf(a[i])
  ELSE BitLengthFrom(a, i - 1)

BitLength(a) ==
  BitLengthFrom(a, NumLimbs)

\* Round q plus a tail in [0, 1) to SignificandBits significant bits, ties to
\* even.  tailCmp compares the tail with one half (-1 below, 0 equal, 1
\* above) and sticky tells whether the tail is non-zero.
RoundTiesToEven(q, tailCmp, sticky) ==
  LET drop == BitLength(q) - SignificandBits
  IN IF drop <= 0
     THEN IF tailCmp > 0 \/ (tailCmp = 0 /\ q[1] % 2 = 1)
          THEN AddExact(q, OneUnit(1)) ELSE q
     ELSE LET unit == Pow2(drop)
              low == q[1] % unit
              half == unit \div 2
              trunc == [q EXCEPT ![1] = q[1] - low]
              odd == (q[1] \div unit) % 2 = 1
              up == low > half \/ (low = half /\ (sticky \/ odd))
          IN IF up THEN AddExact(trunc, OneUnit(unit)) ELSE trunc

\* a + b as JavaScript computes it
NumAdd(a, b) ==
  RoundTiesToEven(AddExact(a, b), -1, FALSE)

\* a - b as JavaScript computes it, for a >= b
NumSub(a, b) ==
  RoundTiesToEven(SubExact(a, b), -1, FALSE)

RECURSIVE DivSmallFrom(_, _, _, _)
\* long division of a by the small divisor n from limb i down:
\* <<quotient, remainder>>
DivSmallFrom(a, n, i, rem) ==
  IF i = 0 THEN <<<<>>, rem>>
  ELSE LET cur == rem * LimbBase + a[i]
           rest == DivSmallFrom(a, n, i - 1, cur % n)
       IN <<rest[1] \o <<cur \div n>>, rest[2]>>

\* The number a form field holding the decimal k/10 is coerced to: the
\* binary64 value nearest to k/10 (k < 256).
Tenths(k) ==
  LET scaled == <<0, 0, 0, k * 256>>
      qr == DivSmallFrom(scaled, 10, NumLimbs, 0)
      cmp == IF 2 * qr[2] > 10 THEN 1 ELSE IF 2 * qr[2] = 10 THEN 0 ELSE -1
  IN RoundTiesToEven(qr[1], cmp, qr[2] > 0)

\* Math.max(0, a - b)
MathMaxZeroDiff(a, b) ==
  IF NumLess(a, b) THEN Zero ELSE NumSub(a, b)

\* the first argument whatever the second is
MathMinOfFirst(a, b) ==
  a

\* Math.min(a, b)
MathMin(a, b) ==
  IF NumLess(b, a) THEN b ELSE a

(***************************************************************************)
(* Dates.  A Date is the number of its calendar day, counted from          *)
(* 0001-01-01 = 1 (a Monday), or InvalidDate; a date string is the         *)
(* sequence <<yyyy, MM, dd>> of the fields of its yyyy-MM-dd text, so      *)
(* that a string such as 2024-02-30 exists and is not a date.              *)
(***************************************************************************)
\* the Invalid Date object (its time value is NaN); no calendar day has number 0
InvalidDate ==
  0

IsLeapYear(y) ==
  (y % 4 = 0 /\ y % 100 # 0) \/ y % 400 = 0

DaysInMonth(y, m) ==
  IF m = 2 THEN (IF IsLeapYear(y) THEN 29 ELSE 28)
  ELSE IF m \in {4, 6, 9, 11} THEN 30 ELSE 31

\* days of the years before year y
DaysBeforeYear(y) ==
  365 * (y - 1) + ((y - 1) \div 4) - ((y - 1) \div 100) + ((y - 1) \div 400)

RECURSIVE DaysBeforeMonth(_, _)
DaysBeforeMonth(y, m) ==
  IF m = 1 THEN 0 ELSE DaysBeforeMonth(y, m - 1) + DaysInMonth(y, m - 1)

isValid(date) ==
  date # InvalidDate

IsDateString(s) ==
  /\ s \in Seq(Int)
  /\ Len(s) = 3
  /\ s[1] \in 1..9999
  /\ s[2] \in 1..12
  /\ s[3] \in 1..DaysInMonth(s[1], s[2])

parseISO(s) ==
  IF IsDateString(s)
  THEN DaysBeforeYear(s[1]) + DaysBeforeMonth(s[1], s[2]) + s[3]
  ELSE InvalidDate

RECURSIVE YearFrom(_, _)
YearFrom(date, y) ==
  IF DaysBeforeYear(y + 1) < date THEN YearFrom(date, y + 1)
  ELSE IF DaysBeforeYear(y) >= date THEN YearFrom(date, y - 1)
  ELSE y

RECURSIVE MonthFrom(_, _, _)
MonthFrom(y, dayOfYear, m) ==
  IF dayOfYear > DaysBeforeMonth(y, m) + DaysInMonth(y, m)
  THEN MonthFrom(y, dayOfYear, m + 1)
  ELSE m

\* format(date, 'yyyy-MM-dd')
format(date) ==
  LET y == YearFrom(date, (date \div 366) + 1)
      doy == date - DaysBeforeYear(y)
      m == MonthFrom(y, doy, 1)
  IN <<y, m, doy - DaysBeforeMonth(y, m)>>

\* getDay: Sunday = 0, Monday = 1, ..., Saturday = 6
getDay(date) ==
  date % 7

isWeekend(date) ==
  isValid(date) /\ getDay(date) \in {0, 6}

addDays(date, n) ==
  IF isValid(date) THEN date + n ELSE InvalidDate

\* the day after date taken for the next Monday
nextMondayAsTomorrow(date) ==
  addDays(date, 1)

\* the first Monday strictly after date
nextMonday(date) ==
  LET delta == 1 - getDay(date)
  IN addDays(date, IF delta <= 0 THEN delta + 7 ELSE delta)

\* dateA < dateB on Date objects (false when either is invalid)
DateLess(dateA, dateB) ==
  isValid(dateA) /\ isValid(dateB) /\ dateA < dateB

(***************************************************************************)
(* Jobs, settings and the schedule map.                                    *)
(***************************************************************************)
\* an absent (undefined) preferredStartDate
NoDate ==
  <<>>

\* a.localeCompare(b) on the digits of two job ids "job-<digits>"
RECURSIVE localeCompare(_, _)
localeCompare(a, b) ==
  IF a = <<>> /\ b = <<>> THEN 0
  ELSE IF a = <<>> THEN -1
  ELSE IF b = <<>> THEN 1
  ELSE IF a[1] < b[1] THEN -1
  ELSE IF a[1] > b[1] THEN 1
  ELSE localeCompare(Tail(a), Tail(b))

RECURSIVE FindOverride(_, _, _)
\* settings.capacityOverrides?.find(o => o.date === dateStr): the index of the
\* first match from i on, 0 when there is none
FindOverride(overrides, dateStr, i) ==
  IF i > Len(overrides) THEN 0
  ELSE IF overrides[i].date = dateStr THEN i
  ELSE FindOverride(overrides, dateStr, i + 1)

getCapacityForDate(dateStr, s) ==
  LET override == FindOverride(s.capacityOverrides, dateStr, 1)
      dateObj == parseISO(dateStr)
      dayIndex == getDay(dateObj)
  IN IF override # 0 THEN s.capacityOverrides[override].hours
     ELSE IF ~isValid(dateObj) \/ isWeekend(dateObj) THEN Zero
     ELSE CASE dayIndex = 1 -> s.dailyCapacityByDay.monday
            [] dayIndex = 2 -> s.dailyCapacityByDay.tuesday
            [] dayIndex = 3 -> s.dailyCapacityByDay.wednesday
            [] dayIndex = 4 -> s.dailyCapacityByDay.thursday
            [] dayIndex = 5 -> s.dailyCapacityByDay.friday
            [] OTHER -> Zero

\* the day column's copy of getCapacityForDate, which feeds the capacity bar
getCapacityForDateFromSettings(dateStr, s) ==
  LET override == FindOverride(s.capacityOverrides, dateStr, 1)
      dateObj == parseISO(dateStr)
      dayIndex == getDay(dateObj)
  IN IF override # 0 THEN s.capacityOverrides[override].hours
     ELSE IF ~isValid(dateObj) \/ isWeekend(dateObj) THEN Zero
     ELSE CASE dayIndex = 1 -> s.dailyCapacityByDay.monday
            [] dayIndex = 2 -> s.dailyCapacityByDay.tuesday
            [] dayIndex = 3 -> s.dailyCapacityByDay.wednesday
            [] dayIndex = 4 -> s.dailyCapacityByDay.thursday
            [] dayIndex = 5 -> s.dailyCapacityByDay.friday
            [] OTHER -> Zero

\* the capacity bar's isOverCapacity
isOverCapacity(bookedHours, totalCapacityHours) ==
  NumLess(totalCapacityHours, bookedHours)

\* the preferred date compared as entered, a weekend day not moved
SortDateAsEntered(job) ==
  parseISO(job.preferredStartDate)

\* the Date a job is sorted by: parseISO of its preferred date moved to the
\* next Monday when on a weekend; only used when the job has a preferred date
SortDate(job) ==
  LET date == parseISO(job.preferredStartDate)
  IN IF isWeekend(date) THEN nextMonday(date) ELSE date

\* the comparator with the sign of the urgency test the wrong way round
compareJobsUrgentLast(a, b) ==
  LET hasA == a.preferredStartDate # NoDate
      hasB == b.preferredStartDate # NoDate
  IN IF a.isUrgent /\ ~b.isUrgent THEN 1
     ELSE IF ~a.isUrgent /\ b.isUrgent THEN -1
     ELSE IF hasA /\ hasB /\ DateLess(SortDate(a), SortDate(b)) THEN -1
     ELSE IF hasA /\ hasB /\ DateLess(SortDate(b), SortDate(a)) THEN 1
     ELSE IF hasA /\ ~hasB THEN -1
     ELSE IF ~hasA /\ hasB THEN 1
     ELSE localeCompare(a.id, b.id)

\* the comparator handed to updatedJobs.sort
compareJobs(a, b) ==
  LET hasA == a.preferredStartDate # NoDate
      hasB == b.preferredStartDate # NoDate
  IN IF a.isUrgent /\ ~b.isUrgent THEN -1
     ELSE IF ~a.isUrgent /\ b.isUrgent THEN 1
     ELSE IF hasA /\ hasB /\ DateLess(SortDate(a), SortDate(b)) THEN -1
     ELSE IF hasA /\ hasB /\ DateLess(SortDate(b), SortDate(a)) THEN 1
     ELSE IF hasA /\ ~hasB THEN -1
     ELSE IF ~hasA /\ hasB THEN 1
     ELSE localeCompare(a.id, b.id)

RECURSIVE InsertJob(_, _)
InsertJob(job, sorted) ==
  IF sorted = <<>> THEN <<job>>
  ELSE IF compareJobs(job, sorted[1]) < 0 THEN <<job>> \o sorted
  ELSE <<sorted[1]>> \o InsertJob(job, Tail(sorted))

RECURSIVE SortJobs(_)
\* Array.prototype.sort with compareJobs (a stable sort)
SortJobs(list) ==
  IF list = <<>> THEN <<>>
  ELSE InsertJob(list[Len(list)], SortJobs(SubSeq(list, 1, Len(list) - 1)))

\* no copy: the same array object
SameArray(h, ref) ==
  [heap |-> h, ref |-> ref]

\* JSON.parse(JSON.stringify(array)): a new array object holding copies of the
\* jobs; h is the store of array objects, indexed by reference
JSONDeepCopy(h, ref) ==
  [heap |-> Append(h, h[ref]), ref |-> Len(h) + 1]

\* a bound of three years on the placement loop, instead of two
maxSchedulingDaysThreeYears ==
  365 * 3

maxSchedulingDays ==
  365 * 2

\* the planning start taken from the current date also for a weekend string
PlanningStartFromClock(str, now) ==
  LET parsed == parseISO(str)
  IN IF ~isValid(parsed) \/ isWeekend(parsed) THEN nextMonday(now) ELSE parsed

\* the planning start Date of a call: the parsed string, or the Monday after
\* it (after the current date when the string does not parse)
PlanningStart(str, now) ==
  LET parsed == parseISO(str)
  IN IF ~isValid(parsed) \/ isWeekend(parsed)
     THEN nextMonday(IF isValid(parsed) THEN parsed ELSE now)
     ELSE parsed

\* the preferred date used whenever it parses, also when it is earlier than
\* the planning start
JobStartDatePreferred(job, planning) ==
  LET preferred == parseISO(job.preferredStartDate)
      start == IF job.preferredStartDate # NoDate /\ isValid(preferred)
               THEN preferred ELSE planning
  IN IF isWeekend(start) THEN nextMonday(start) ELSE start

\* the Date a job's placement starts on
JobStartDate(job, planning) ==
  LET preferred == parseISO(job.preferredStartDate)
      start == IF job.preferredStartDate # NoDate /\ isValid(preferred)
               THEN (IF ~DateLess(preferred, planning) THEN preferred ELSE planning)
               ELSE planning
  IN IF isWeekend(start) THEN nextMonday(start) ELSE start

\* a placement that begins with the segments the job came with
StartJobKeepingSegments(job) ==
  job

\* the job as its placement begins: job.scheduledSegments = []
StartJob(job) ==
  [job EXCEPT !.scheduledSegments = <<>>]

\* the DayData of a date string in the schedule map, a fresh one when absent
DayDataOf(schedule, dateStr) ==
  IF dateStr \in DOMAIN schedule THEN schedule[dateStr]
  ELSE [date |-> dateStr, assignments |-> <<>>, totalHoursAssigned |-> Zero]

\* a map that holds the one date set last
MapSetAlone(schedule, dateStr, dayData) ==
  [k \in {dateStr} |-> dayData]

\* allocatedSchedule.set(dateStr, dayData)
MapSet(schedule, dateStr, dayData) ==
  [k \in DOMAIN schedule \cup {dateStr} |->
     IF k = dateStr THEN dayData ELSE schedule[k]]

\* an assignment recording the job's required hours as the hours of the day
NewAssignmentRequiredHours(job, dateStr, hours) ==
  [date |-> dateStr, jobId |-> job.id, jobName |-> job.name,
   hoursAssigned |-> job.requiredHours, color |-> job.color,
   isUrgent |-> job.isUrgent, activityType |-> job.activityType,
   activityOther |-> job.activityOther, quoteNumber |-> job.quoteNumber]

NewAssignment(job, dateStr, hours) ==
  [date |-> dateStr, jobId |-> job.id, jobName |-> job.name,
   hoursAssigned |-> hours, color |-> job.color, isUrgent |-> job.isUrgent,
   activityType |-> job.activityType, activityOther |-> job.activityOther,
   quoteNumber |-> job.quoteNumber]

(***************************************************************************)
(* The inputs of a call.                                                   *)
(***************************************************************************)
\* the most calls of allocateJobs in one behaviour
MaxCalls ==
  2

Job(id, name, color, hours, urgent, preferred) ==
  [id |-> id, name |-> name, requiredHours |-> hours, isUrgent |-> urgent,
   color |-> color, activityType |-> "Fab", activityOther |-> "",
   quoteNumber |-> "Q-1001", scheduledSegments |-> <<>>,
   preferredStartDate |-> preferred]

\* the jobs a list may hold: job-1, job-10 and job-2, each in some variants
JobChoices ==
  { Job(<<1>>, "Alpha", "bg-red-500", Tenths(7), TRUE, NoDate),
    Job(<<1>>, "Alpha", "bg-red-500", Tenths(14), FALSE, NoDate),
    Job(<<1, 0>>, "Beta", "bg-orange-500", Tenths(154), TRUE, NoDate),
    Job(<<1, 0>>, "Beta", "bg-orange-500", Tenths(154), TRUE, <<2024, 1, 8>>),
    Job(<<1, 0>>, "Beta", "bg-orange-500", Tenths(154), FALSE, NoDate),
    Job(<<1, 0>>, "Beta", "bg-orange-500", Tenths(154), FALSE, <<2024, 1, 2>>),
    Job(<<2>>, "Gamma", "bg-yellow-400", Tenths(154), FALSE, NoDate),
    Job(<<2>>, "Gamma", "bg-yellow-400", Tenths(154), FALSE, <<2024, 1, 6>>),
    Job(<<2>>, "Gamma", "bg-yellow-400", Tenths(154), TRUE, <<2024, 1, 7>>) }

RECURSIVE JobLists(_)
\* the lists of at most n jobs with pairwise different ids
JobLists(n) ==
  IF n = 0 THEN {<<>>}
  ELSE LET shorter == JobLists(n - 1)
       IN shorter \cup
          { Append(l, j) : l \in {k \in shorter : Len(k) = n - 1},
                           j \in JobChoices } 

DistinctIds(list) ==
  \A i, j \in 1..Len(list) : list[i].id = list[j].id => i = j

Week(h) ==
  [monday |-> h, tuesday |-> h, wednesday |-> h, thursday |-> h, friday |-> h]

EightHours ==
  [dailyCapacityByDay |-> Week(Tenths(80)), capacityOverrides |-> <<>>]

\* a capacity that is not a whole number of half hours
OddHours ==
  [dailyCapacityByDay |-> Week(Tenths(77)), capacityOverrides |-> <<>>]

\* capacities differing by weekday, with overrides: a closed Tuesday, a
\* Saturday, and a long Wednesday
MixedHours ==
  [dailyCapacityByDay |->
     [monday |-> Tenths(50), tuesday |-> Tenths(60), wednesday |-> Tenths(50),
      thursday |-> Tenths(50), friday |-> Tenths(40)],
   capacityOverrides |->
     << [date |-> <<2024, 1, 9>>, hours |-> Zero],
        [date |-> <<2024, 1, 13>>, hours |-> Tenths(40)],
        [date |-> <<2024, 1, 3>>, hours |-> Tenths(95)] >>]

\* settings under which a job cannot be placed in full: capacity on one day
ScarceHours ==
  [dailyCapacityByDay |-> Week(Zero),
   capacityOverrides |-> << [date |-> <<2024, 1, 2>>, hours |-> Tenths(80)] >>]

\* no capacity on any day
ZeroHours ==
  [dailyCapacityByDay |-> Week(Zero), capacityOverrides |-> <<>>]

\* the job lists tried under scarce settings
ScarceJobLists ==
  { l \in JobLists(2) :
      /\ DistinctIds(l)
      /\ Len(l) >= 1
      /\ \A i \in 1..Len(l) :
            l[i].preferredStartDate = NoDate /\ l[i].id # <<2>> /\ ~l[i].isUrgent
      /\ l[1].id = <<1, 0>> }

\* a capacity from which the hours of a short job subtract and add back to
\* less than the capacity
ShortHours ==
  [dailyCapacityByDay |-> Week(Tenths(72)), capacityOverrides |-> <<>>]

\* the job lists tried under ShortHours: a short job-1 before job-10 and
\* job-2
ShortJobLists ==
  { << Job(<<1>>, "Alpha", "bg-red-500", Tenths(11), FALSE, NoDate),
       Job(<<1, 0>>, "Beta", "bg-orange-500", Tenths(154), FALSE, NoDate),
       Job(<<2>>, "Gamma", "bg-yellow-400", Tenths(154), FALSE, NoDate) >>,
    << Job(<<1>>, "Alpha", "bg-red-500", Tenths(11), FALSE, NoDate),
       Job(<<1, 0>>, "Beta", "bg-orange-500", Tenths(154), FALSE, NoDate) >> }

\* planning start date strings: a Monday, a Saturday, and a string that is
\* not a date
Monday ==
  <<2024, 1, 1>>

Saturday ==
  <<2024, 1, 6>>

NotADate ==
  <<2024, 2, 30>>

\* the days on which a call may happen: a Wednesday and the Saturday of the
\* week after
Todays ==
  { parseISO(<<2024, 1, 3>>), parseISO(<<2024, 1, 13>>) }

Input(l, s, p) ==
  [jobs |-> l, settings |-> s, planning |-> p]

Inputs ==
  { Input(l, s[1], s[2]) :
      l \in {k \in JobLists(3) : DistinctIds(k)},
      s \in {<<EightHours, Monday>>, <<EightHours, Saturday>>,
              <<MixedHours, Monday>>} }
  \cup
  { Input(l, s[1], s[2]) :
      l \in {k \in JobLists(2) : DistinctIds(k)},
      s \in {<<OddHours, Monday>>, <<MixedHours, Saturday>>,
              <<EightHours, NotADate>>} }
  \cup
  { Input(l, ScarceHours, Monday) : l \in ScarceJobLists }
  \cup
  { Input(l, ShortHours, Monday) : l \in ShortJobLists }
  \cup
  { Input(l, ZeroHours, Monday) : l \in {k \in ScarceJobLists : Len(k) = 2} }

(***************************************************************************)
(* The state of a call of allocateJobs.                                    *)
(***************************************************************************)
VARIABLES
  heap,                     \* the array objects: reference -> list of jobs
  jobsToAllocate,           \* the argument: a reference
  settings,                 \* the argument
  planningStartDateString,  \* the argument
  today,                    \* what new Date() gave the call, if it was read
  updatedJobs,              \* reference of the copy (0 before the copy)
  allocatedSchedule,        \* date string -> DayData
  planningStartDate,
  jobIndex,                 \* position of the for-of loop in updatedJobs
  remainingHours,
  currentDate,
  dateStr,                  \* the date string of the last loop iteration
  dayCapacity,              \* the capacity looked up for dateStr
  safetyCounter,
  warnings,                 \* ids of the jobs console.warn was called for
  pc,                       \* "call", "nextJob", "loop", "done"; "query" and
                            \* "resolved" for a lone capacity lookup
  calls,                    \* number of calls entered so far
  argAtCall,                \* the list jobsToAllocate held when the call began
  previous                  \* the result of the call before this one

allocatorVars ==
  <<heap, jobsToAllocate, settings, planningStartDateString, today,
    updatedJobs, allocatedSchedule, planningStartDate, jobIndex,
    remainingHours, currentDate, dateStr, dayCapacity, safetyCounter,
    warnings, pc, calls, argAtCall, previous>>

\* a call of generateDateRange
VARIABLES
  startDate,                \* the argument: a Date
  numDaysInPeriod,          \* the argument
  rangeToday,               \* what new Date() gives the call
  dateRange                 \* the returned array (NoRange before the return)

rangeVars ==
  <<startDate, numDaysInPeriod, rangeToday, dateRange>>

\* stands for the array before the return: no returned array holds NoDate
NoRange ==
  <<NoDate>>

\* no call of generateDateRange
RangeIdle ==
  /\ startDate = InvalidDate
  /\ numDaysInPeriod = 0
  /\ rangeToday = InvalidDate
  /\ dateRange = NoRange

\* the session of SchedulerPage (page.tsx) with its AIOptimizerDialog; the
\* page's settings and allocatedSchedule states are the variables settings
\* and allocatedSchedule, and today is what new Date() gave the mount effect
VARIABLES
  jobs,                     \* useState<Job[]>
  currentPlanningDate,      \* useState<string | null>: NoDate for null
  viewMode,                 \* "2_WEEKS" or "MONTH"
  isLoading,                \* the page's isLoading
  effectDue,                \* the reallocation effect is to run (a dependency changed)
  clock,                    \* the ticks Date.now() has given to new job ids
  edits,                    \* user actions so far, on the page and submissions of the dialog
  isOpen,                   \* the dialog's isOpen
  optimizerIsLoading,       \* the dialog's isLoading
  inFlight,                 \* the optimizer requests awaited, each with the
                            \* currentJobs and jobs its closures hold
  lastResponse,             \* the last response handled by onSubmit
  toasts                    \* the title of the last toast of the optimizer ("" for none)

pageVars ==
  <<jobs, currentPlanningDate, viewMode, isLoading, effectDue, clock, edits,
    isOpen, optimizerIsLoading, inFlight, lastResponse, toasts>>

NoResponse ==
  [kind |-> "none", jobs |-> <<>>]

\* no session
PageIdle ==
  /\ jobs = <<>>
  /\ currentPlanningDate = NoDate
  /\ viewMode = "2_WEEKS"
  /\ isLoading = TRUE
  /\ effectDue = FALSE
  /\ clock = 0
  /\ edits = 0
  /\ isOpen = FALSE
  /\ optimizerIsLoading = FALSE
  /\ inFlight = <<>>
  /\ lastResponse = NoResponse
  /\ toasts = ""

\* the state outside a call of allocateJobs or getCapacityForDate
outsideAllocator ==
  <<rangeVars, pageVars>>

OutsideAllocatorIdle ==
  RangeIdle /\ PageIdle

vars ==
  <<allocatorVars, outsideAllocator>>

\* the job list updatedJobs refers to
UpdatedJobs ==
  IF updatedJobs = 0 THEN <<>> ELSE heap[updatedJobs]

NoResult ==
  [allocatedSchedule |-> <<>>, updatedJobs |-> <<>>, ownOutput |-> FALSE,
   today |-> InvalidDate]

\* allocateJobs is about to be called on one of the given inputs
InitFrom(inputs) ==
  \E in \in inputs :
    /\ heap = <<in.jobs>>
    /\ jobsToAllocate = 1
    /\ settings = in.settings
    /\ planningStartDateString = in.planning
    /\ today = InvalidDate
    /\ updatedJobs = 0
    /\ allocatedSchedule = <<>>
    /\ planningStartDate = InvalidDate
    /\ jobIndex = 0
    /\ remainingHours = Zero
    /\ currentDate = InvalidDate
    /\ dateStr = NoDate
    /\ dayCapacity = Zero
    /\ safetyCounter = 0
    /\ warnings = <<>>
    /\ pc = "call"
    /\ calls = 0
    /\ argAtCall = <<>>
    /\ previous = NoResult
    /\ OutsideAllocatorIdle

Init ==
  InitFrom(Inputs)

\* allocateJobs is entered: copy, planning start date, sort (lines 239-266)
Enter ==
  /\ pc = "call"
  /\ \E now \in Todays :
       /\ today' = IF isValid(parseISO(planningStartDateString))
                   THEN InvalidDate ELSE now
       /\ planningStartDate' = PlanningStart(planningStartDateString, now)
  /\ LET copy == JSONDeepCopy(heap, jobsToAllocate)
     IN /\ updatedJobs' = copy.ref
        /\ heap' = [copy.heap EXCEPT ![copy.ref] = SortJobs(@)]
  /\ allocatedSchedule' = <<>>
  /\ jobIndex' = 1
  /\ remainingHours' = Zero
  /\ currentDate' = InvalidDate
  /\ dateStr' = NoDate
  /\ dayCapacity' = Zero
  /\ safetyCounter' = 0
  /\ warnings' = <<>>
  /\ calls' = calls + 1
  /\ argAtCall' = heap[jobsToAllocate]
  /\ pc' = "nextJob"
  /\ UNCHANGED <<jobsToAllocate, settings, planningStartDateString, previous>>
  /\ UNCHANGED outsideAllocator

\* the for-of loop takes the next job (lines 268-290) and tests the while
\* condition for the first time
BeginJob ==
  /\ pc = "nextJob"
  /\ jobIndex <= Len(UpdatedJobs)
  /\ LET job == UpdatedJobs[jobIndex]
         jobStartDate == JobStartDate(job, planningStartDate)
     IN /\ heap' = [heap EXCEPT ![updatedJobs][jobIndex] = StartJob(@)]
        /\ remainingHours' = job.requiredHours
        /\ currentDate' = jobStartDate
        /\ safetyCounter' = 0
        /\ IF NumLess(Zero, job.requiredHours) /\ 0 < maxSchedulingDays
           THEN pc' = "loop" /\ jobIndex' = jobIndex
           ELSE pc' = "nextJob" /\ jobIndex' = jobIndex + 1
  /\ UNCHANGED <<jobsToAllocate, settings, planningStartDateString, today,
                 updatedJobs, allocatedSchedule, planningStartDate, dateStr,
                 dayCapacity, warnings, calls, argAtCall, previous>>
  /\ UNCHANGED outsideAllocator

\* a warning that says nothing
WarnNothing(log, job) ==
  log

\* console.warn(`Job ${job.id} ... could not be fully scheduled ...`): the log
\* of warnings, by job id
Warn(log, job) ==
  Append(log, job.id)

\* one iteration of the while loop (lines 292-342)
LoopStep ==
  /\ pc = "loop"
  /\ LET job == UpdatedJobs[jobIndex]
         counter == safetyCounter + 1
         date == IF isWeekend(currentDate) THEN nextMonday(currentDate)
                 ELSE currentDate
         str == format(date)
         capacity == getCapacityForDate(str, settings)
         dayData == DayDataOf(allocatedSchedule, str)
         availableToday == MathMaxZeroDiff(capacity, dayData.totalHoursAssigned)
         allocateNow == MathMin(remainingHours, availableToday)
         placed == NumLess(Zero, allocateNow)
         remaining == IF placed THEN NumSub(remainingHours, allocateNow)
                      ELSE remainingHours
         more == NumLess(Zero, remaining)
         exhausted == more /\ counter >= maxSchedulingDays
     IN /\ safetyCounter' = counter
        /\ dateStr' = str
        /\ dayCapacity' = capacity
        /\ IF placed
           THEN /\ heap' = [heap EXCEPT ![updatedJobs][jobIndex].scheduledSegments =
                              Append(@, [date |-> str, hours |-> allocateNow])]
                /\ allocatedSchedule' =
                     MapSet(allocatedSchedule, str,
                       [dayData EXCEPT
                          !.assignments = Append(@, NewAssignment(job, str, allocateNow)),
                          !.totalHoursAssigned = NumAdd(@, allocateNow)])
           ELSE UNCHANGED <<heap, allocatedSchedule>>
        /\ remainingHours' = remaining
        /\ currentDate' = IF more THEN addDays(date, 1) ELSE date
        /\ warnings' = IF exhausted THEN Warn(warnings, job) ELSE warnings
        /\ IF more /\ ~exhausted
           THEN pc' = "loop" /\ jobIndex' = jobIndex
           ELSE pc' = "nextJob" /\ jobIndex' = jobIndex + 1
  /\ UNCHANGED <<jobsToAllocate, settings, planningStartDateString, today,
                 updatedJobs, planningStartDate, calls, argAtCall, previous>>
  /\ UNCHANGED outsideAllocator

\* the for-of loop is over: return { allocatedSchedule, updatedJobs } (line 344)
Return ==
  /\ pc = "nextJob"
  /\ jobIndex > Len(UpdatedJobs)
  /\ pc' = "done"
  /\ UNCHANGED <<heap, jobsToAllocate, settings, planningStartDateString, today,
                 updatedJobs, allocatedSchedule, planningStartDate, jobIndex,
                 remainingHours, currentDate, dateStr, dayCapacity,
                 safetyCounter, warnings, calls, argAtCall, previous>>
  /\ UNCHANGED outsideAllocator

\* the caller calls again, with the same settings and planning start date
\* string, on the same job list or on the updatedJobs it got back
CallAgain ==
  /\ pc = "done"
  /\ calls < MaxCalls
  /\ \E arg \in {jobsToAllocate, updatedJobs} :
       /\ jobsToAllocate' = arg
       /\ previous' = [allocatedSchedule |-> allocatedSchedule,
                       updatedJobs |-> UpdatedJobs,
                       ownOutput |-> (arg = updatedJobs),
                       today |-> today]
  /\ pc' = "call"
  /\ UNCHANGED <<heap, settings, planningStartDateString, today, updatedJobs,
                 allocatedSchedule, planningStartDate, jobIndex, remainingHours,
                 currentDate, dateStr, dayCapacity, safetyCounter, warnings,
                 calls, argAtCall>>
  /\ UNCHANGED outsideAllocator

Next ==
  \/ Enter
  \/ BeginJob
  \/ LoopStep
  \/ Return
  \/ CallAgain

Spec ==
  Init /\ [][Next]_vars

\* A step of a running call, told by the position in the code moving on: the
\* steps Enter, BeginJob, LoopStep and Return are exactly the steps of Next of
\* this kind, and one of them is possible whenever a call is running.
\* JavaScript runs a function to completion, so a running call takes them.
CallStep ==
  /\ pc \in {"call", "nextJob", "loop"}
  /\ pc' \in {"nextJob", "loop", "done"}
  /\ jobIndex' \in {1, jobIndex, jobIndex + 1}
  /\ safetyCounter' \in {0, safetyCounter, safetyCounter + 1}

\* the position of a call in the code
position == <<pc, jobIndex, safetyCounter>>

\* inputs for following calls to their end: no capacity, capacity on one
\* day, and ordinary capacity planned from a Saturday and a string that is not
\* a date
TerminationInputs ==
  { Input(l, s, Monday) : l \in ScarceJobLists, s \in {ScarceHours, ZeroHours} }
  \cup
  { Input(l, EightHours, p) :
      l \in {k \in JobLists(2) : DistinctIds(k) /\ Len(k) = 2 /\ k[1].id = <<2>>},
      p \in {Saturday, NotADate} }

InitTermination ==
  InitFrom(TerminationInputs)

FairSpec ==
  InitTermination /\ [][Next]_vars /\ WF_position(CallStep)

(***************************************************************************)
(* getCapacityForDate on its own: a date string and settings are drawn     *)
(* and the capacity is looked up.                                          *)
(***************************************************************************)
\* the days of a week, a day with a leap-year date, and strings that are not
\* dates
QueryDateStrings ==
  { <<2024, 1, d>> : d \in 1..9 } \cup { <<2024, 2, 29>>, <<2024, 2, 30>>, <<2023, 2, 29>> }

OverrideListChoices ==
  { <<>>,
    << [date |-> <<2024, 1, 3>>, hours |-> Zero] >>,
    << [date |-> <<2024, 1, 6>>, hours |-> Tenths(50)] >>,
    << [date |-> <<2024, 2, 30>>, hours |-> Tenths(30)] >>,
    << [date |-> <<2024, 1, 2>>, hours |-> Tenths(95)],
       [date |-> <<2024, 1, 7>>, hours |-> Tenths(20)],
       [date |-> <<2024, 1, 2>>, hours |-> Tenths(10)] >> }

WeekChoices ==
  { Week(Tenths(80)),
    [monday |-> Tenths(10), tuesday |-> Tenths(20), wednesday |-> Tenths(30),
     thursday |-> Tenths(40), friday |-> Tenths(50)],
    Week(Zero) }

InitCapacity ==
  /\ dateStr \in QueryDateStrings
  /\ settings \in { [dailyCapacityByDay |-> w, capacityOverrides |-> o] :
                      w \in WeekChoices, o \in OverrideListChoices }
  /\ pc = "query"
  /\ heap = <<>>
  /\ jobsToAllocate = 0
  /\ planningStartDateString = NoDate
  /\ today = InvalidDate
  /\ updatedJobs = 0
  /\ allocatedSchedule = <<>>
  /\ planningStartDate = InvalidDate
  /\ jobIndex = 0
  /\ remainingHours = Zero
  /\ currentDate = InvalidDate
  /\ dayCapacity = Zero
  /\ safetyCounter = 0
  /\ warnings = <<>>
  /\ calls = 0
  /\ argAtCall = <<>>
  /\ previous = NoResult
  /\ OutsideAllocatorIdle

\* const dayCapacity = getCapacityForDate(dateStr, settings)
Resolve ==
  /\ pc = "query"
  /\ dayCapacity' = getCapacityForDate(dateStr, settings)
  /\ pc' = "resolved"
  /\ UNCHANGED <<heap, jobsToAllocate, settings, planningStartDateString, today,
                 updatedJobs, allocatedSchedule, planningStartDate, jobIndex,
                 remainingHours, currentDate, dateStr, safetyCounter, warnings,
                 calls, argAtCall, previous>>
  /\ UNCHANGED outsideAllocator

NextCapacity ==
  Resolve

SpecCapacity ==
  InitCapacity /\ [][NextCapacity]_vars

\* the parameters and locals of allocateJobs other than settings,
\* allocatedSchedule and today
allocatorRest ==
  <<heap, jobsToAllocate, planningStartDateString, updatedJobs,
    planningStartDate, jobIndex, remainingHours, currentDate, dateStr,
    dayCapacity, safetyCounter, warnings, pc, calls, argAtCall, previous>>

\* no call of allocateJobs or getCapacityForDate
AllocatorIdle ==
  /\ settings = ZeroHours
  /\ today = InvalidDate
  /\ allocatedSchedule = <<>>
  /\ heap = <<>>
  /\ jobsToAllocate = 0
  /\ planningStartDateString = NoDate
  /\ updatedJobs = 0
  /\ planningStartDate = InvalidDate
  /\ jobIndex = 0
  /\ remainingHours = Zero
  /\ currentDate = InvalidDate
  /\ dateStr = NoDate
  /\ dayCapacity = Zero
  /\ safetyCounter = 0
  /\ warnings = <<>>
  /\ pc = "idle"
  /\ calls = 0
  /\ argAtCall = <<>>
  /\ previous = NoResult

(***************************************************************************)
(* allocateJobs as its callers see it: the value a whole call returns.     *)
(***************************************************************************)

\* the while loop of one job (lines 292-342), from its condition on
RECURSIVE PlaceJob(_, _, _, _, _, _)
PlaceJob(job, schedule, s, remaining, current, counted) ==
  IF ~(NumLess(Zero, remaining) /\ counted < maxSchedulingDays)
  THEN [job |-> job, schedule |-> schedule]
  ELSE
    LET counter == counted + 1
        date == IF isWeekend(current) THEN nextMonday(current) ELSE current
        str == format(date)
        capacity == getCapacityForDate(str, s)
        dayData == DayDataOf(schedule, str)
        availableToday == MathMaxZeroDiff(capacity, dayData.totalHoursAssigned)
        allocateNow == MathMin(remaining, availableToday)
        placed == NumLess(Zero, allocateNow)
        jobNow == IF placed
                  THEN [job EXCEPT !.scheduledSegments =
                          Append(@, [date |-> str, hours |-> allocateNow])]
                  ELSE job
        scheduleNow ==
          IF placed
          THEN MapSet(schedule, str,
                 [dayData EXCEPT
                    !.assignments = Append(@, NewAssignment(job, str, allocateNow)),
                    !.totalHoursAssigned = NumAdd(@, allocateNow)])
          ELSE schedule
        left == IF placed THEN NumSub(remaining, allocateNow) ELSE remaining
    IN IF ~NumLess(Zero, left) \/ counter >= maxSchedulingDays
       THEN [job |-> jobNow, schedule |-> scheduleNow]
       ELSE PlaceJob(jobNow, scheduleNow, s, left, addDays(date, 1), counter)

\* the for-of loop over updatedJobs (lines 268-343), from job i on
RECURSIVE AllocateFrom(_, _, _, _, _)
AllocateFrom(list, i, schedule, s, planning) ==
  IF i > Len(list)
  THEN [allocatedSchedule |-> schedule, updatedJobs |-> list]
  ELSE LET job == StartJob(list[i])
           r == PlaceJob(job, schedule, s, job.requiredHours,
                         JobStartDate(job, planning), 0)
       IN AllocateFrom([list EXCEPT ![i] = r.job], i + 1, r.schedule, s, planning)

\* allocateJobs(jobsToAllocate, settings, planningStartDateString); now is
\* what new Date() gives
allocateJobs(list, s, str, now) ==
  AllocateFrom(SortJobs(list), 1, <<>>, s, PlanningStart(str, now))

\* the value of a call is what its steps arrive at (compared for the calls
\* that placed every job)
CallIsItsSteps ==
  (pc = "done" /\ warnings = <<>>) =>
    allocateJobs(argAtCall, settings, planningStartDateString, today)
      = [allocatedSchedule |-> allocatedSchedule, updatedJobs |-> UpdatedJobs]

(***************************************************************************)
(* generateDateRange (scheduler-utils.ts lines 207-232)                    *)
(***************************************************************************)

\* eachDayOfInterval({ start, end }) for start <= end
eachDayOfInterval(start, end) ==
  [i \in 1..(end - start + 1) |-> start + (i - 1)]

\* .filter(date => !isWeekend(date))
RECURSIVE FilterWeekdays(_)
FilterWeekdays(days) ==
  IF days = <<>> THEN <<>>
  ELSE IF isWeekend(Head(days)) THEN FilterWeekdays(Tail(days))
  ELSE <<Head(days)>> \o FilterWeekdays(Tail(days))

\* .map(date => format(date, DATE_FORMAT))
FormatAll(days) ==
  [i \in 1..Len(days) |-> format(days[i])]

\* now is what new Date() gives, read when startDate is invalid
generateDateRange(start, numDays, now) ==
  LET from == IF isValid(start) THEN start ELSE now
      effectiveStartDate == IF isWeekend(from) THEN nextMonday(from) ELSE from
      endDate == addDays(effectiveStartDate, numDays - 1)
      allDays == eachDayOfInterval(effectiveStartDate, endDate)
  IN FormatAll(FilterWeekdays(allDays))

\* the longest period asked for (page.tsx asks for 14 days)
MaxDays == 14

\* start dates: every day of a week, the days around a leap day and a year's
\* end, and an invalid Date
StartDates ==
  { parseISO(<<2024, 1, d>>) : d \in 1..7 }
    \cup { parseISO(<<2024, 2, 26>>), parseISO(<<2023, 12, 29>>), InvalidDate }

InitRange ==
  /\ startDate \in StartDates
  /\ numDaysInPeriod \in 1..MaxDays
  /\ rangeToday \in Todays
  /\ dateRange = NoRange
  /\ AllocatorIdle
  /\ PageIdle

Generate ==
  /\ dateRange = NoRange
  /\ dateRange' = generateDateRange(startDate, numDaysInPeriod, rangeToday)
  /\ UNCHANGED <<startDate, numDaysInPeriod, rangeToday>>
  /\ UNCHANGED allocatorVars
  /\ UNCHANGED pageVars

NextRange ==
  Generate

SpecRange ==
  InitRange /\ [][NextRange]_vars

(***************************************************************************)
(* The session of SchedulerPage (page.tsx lines 252-534).                  *)
(***************************************************************************)

\* date-fns startOfMonth, endOfMonth, addMonths, subMonths
startOfMonth(date) ==
  LET f == format(date) IN parseISO(<<f[1], f[2], 1>>)

endOfMonth(date) ==
  LET f == format(date) IN parseISO(<<f[1], f[2], DaysInMonth(f[1], f[2])>>)

addMonths(date, n) ==
  LET f == format(date)
      months == f[1] * 12 + (f[2] - 1) + n
      y == months \div 12
      m == (months % 12) + 1
      last == DaysInMonth(y, m)
  IN parseISO(<<y, m, IF f[3] > last THEN last ELSE f[3]>>)

subMonths(date, n) ==
  addMonths(date, 0 - n)

\* the days of the two-week view
DisplayedDays == 14

\* dateRangeToDisplay (lines 287-302); now is what new Date() gives
dateRangeToDisplay(planning, mode, now) ==
  IF planning = NoDate THEN <<>>
  ELSE IF ~isValid(parseISO(planning))
       THEN generateDateRange(now, DisplayedDays, now)
  ELSE IF mode = "MONTH"
       THEN FormatAll(FilterWeekdays(
              eachDayOfInterval(startOfMonth(parseISO(planning)),
                                endOfMonth(parseISO(planning)))))
  ELSE generateDateRange(parseISO(planning), DisplayedDays, now)

\* INITIAL_SETTINGS: 8 hours a day and no overrides, in the shape of
\* ScheduleSettings that getCapacityForDate reads
INITIAL_SETTINGS ==
  EightHours

\* today moved to a weekday (lines 266-270)
MountDate(now) ==
  IF isWeekend(now) THEN nextMonday(now) ELSE now

\* dynamicInitialJobs (lines 273-277)
dynamicInitialJobs(now) ==
  LET day == MountDate(now)
      todayStr == format(day)
      after == addDays(day, 1)
      afterStr == format(IF isWeekend(after) THEN nextMonday(after) ELSE after)
  IN << Job(<<1>>, "Order #001 - Alpha Parts", "bg-sky-500", Tenths(160), FALSE, todayStr),
        [Job(<<2>>, "Order #002 - Beta Assembly", "bg-rose-500", Tenths(80), TRUE, todayStr)
           EXCEPT !.activityType = "Screens", !.quoteNumber = "Q-1002"],
        [Job(<<3>>, "Order #003 - Gamma Components", "bg-emerald-500", Tenths(240), FALSE, afterStr)
           EXCEPT !.activityType = "Cut & Prep", !.quoteNumber = "Q-1003"] >>

\* a schedule that keeps the days of the schedule before
reallocateScheduleOverOld(list, s, planning, loading, schedule, now) ==
  IF planning = NoDate \/ Len(list) = 0 \/ loading THEN schedule
  ELSE IF ~isValid(parseISO(planning)) \/ isWeekend(parseISO(planning)) THEN schedule
  ELSE LET newSchedule == allocateJobs(list, s, planning, now).allocatedSchedule
       IN [k \in DOMAIN schedule \cup DOMAIN newSchedule |->
             IF k \in DOMAIN newSchedule THEN newSchedule[k] ELSE schedule[k]]

\* reallocateSchedule (lines 304-314): the allocatedSchedule state after it
reallocateSchedule(list, s, planning, loading, schedule, now) ==
  IF planning = NoDate \/ Len(list) = 0 \/ loading THEN schedule
  ELSE IF ~isValid(parseISO(planning)) \/ isWeekend(parseISO(planning)) THEN schedule
  ELSE allocateJobs(list, s, planning, now).allocatedSchedule

\* the preferred date stored as entered
SavedPreferredStartDateAsEntered(str) ==
  str

\* the preferred start date of handleSaveJob (lines 323-329)
SavedPreferredStartDate(str) ==
  IF str # NoDate /\ isWeekend(parseISO(str))
  THEN format(nextMonday(parseISO(str)))
  ELSE str

\* { ...j, ...jobData, preferredStartDate, scheduledSegments: [] } and, for
\* a new job, { ...jobData, preferredStartDate, id, scheduledSegments: [] }
SavedJob(jobData, id) ==
  [jobData EXCEPT !.id = id,
                  !.preferredStartDate = SavedPreferredStartDate(@),
                  !.scheduledSegments = <<>>]

\* `job-${Date.now()}`, of 13 digits from 17...; ticks tells the ids apart
NewJobId(ticks) ==
  <<1, 7, ticks>>

\* handleSaveJob (lines 322-342): the jobs state after it; id is NoDate for
\* a new job
handleSaveJob(list, jobData, id, ticks) ==
  IF id # NoDate
  THEN [i \in 1..Len(list) |->
          IF list[i].id = id THEN SavedJob(jobData, id) ELSE list[i]]
  ELSE Append(list, SavedJob(jobData, NewJobId(ticks)))

\* handleDropJob (lines 352-365): the jobs state after it
handleDropJob(list, jobId, targetDateStr) ==
  LET targetDate == IF isWeekend(parseISO(targetDateStr))
                    THEN nextMonday(parseISO(targetDateStr))
                    ELSE parseISO(targetDateStr)
      finalTargetDateStr == format(targetDate)
  IN [i \in 1..Len(list) |->
        IF list[i].id = jobId
        THEN [list[i] EXCEPT !.preferredStartDate = finalTargetDateStr,
                             !.scheduledSegments = <<>>]
        ELSE list[i]]

\* the override's date is not on a weekend
NotOnWeekend(override) ==
  ~isWeekend(parseISO(override.date))

\* handleSettingsChange (lines 367-374): the settings state after it
handleSettingsChange(newSettings) ==
  [newSettings EXCEPT !.capacityOverrides = SelectSeq(@, NotOnWeekend)]

\* a Next that leaves a weekend date as it is
handleNextToAnyDay(planning, mode) ==
  LET currentDateObj == parseISO(planning)
  IN format(IF mode = "MONTH" THEN startOfMonth(addMonths(currentDateObj, 1))
            ELSE addDays(currentDateObj, 7))

\* handleNext (lines 403-417): the planning date after it
handleNext(planning, mode) ==
  LET currentDateObj == parseISO(planning)
      moved == IF mode = "MONTH" THEN startOfMonth(addMonths(currentDateObj, 1))
               ELSE addDays(currentDateObj, 7)
  IN format(IF isWeekend(moved) THEN nextMonday(moved) ELSE moved)

\* handlePrev (lines 419-447): the planning date after it, and whether the
\* handler threw: subDays is not imported by page.tsx, so that the branch of
\* a weekend date ends the handler with a ReferenceError
handlePrev(planning, mode) ==
  LET currentDateObj == parseISO(planning)
      moved == IF mode = "MONTH" THEN startOfMonth(subMonths(currentDateObj, 1))
               ELSE addDays(currentDateObj, 0 - 7)
      month == startOfMonth(moved)
  IN IF isWeekend(moved) THEN [threw |-> TRUE, date |-> planning]
     ELSE IF mode = "MONTH"
          THEN [threw |-> FALSE,
                date |-> format(IF isWeekend(month) THEN nextMonday(month) ELSE month)]
     ELSE [threw |-> FALSE, date |-> format(moved)]

\* settingsSchema and capacityOverrideSchema (settings-panel.tsx lines
\* 192-215): every override date is a valid date and no weekend; hours and
\* capacities are numbers >= 0, as all numbers of this model are
SettingsSchemaAccepts(data) ==
  \A i \in 1..Len(data.capacityOverrides) :
    LET date == parseISO(data.capacityOverrides[i].date)
    IN isValid(date) /\ ~isWeekend(date)

\* the override names a date that is valid and no weekend
ValidOverride(override) ==
  /\ override.date # NoDate
  /\ isValid(parseISO(override.date))
  /\ ~isWeekend(parseISO(override.date))

\* onSubmit of the settings panel (settings-panel.tsx lines 263-274): the
\* settings handed to onSettingsChange
SettingsPanelOnSubmit(data) ==
  [dailyCapacityByDay |-> data.dailyCapacityByDay,
   capacityOverrides |-> SelectSeq(data.capacityOverrides, ValidOverride)]

\* optimizedOutput.jobs.find(j => j.id === id): the index of the first, 0
\* for undefined
FindJob(list, id) ==
  IF \E i \in 1..Len(list) : list[i].id = id
  THEN CHOOSE i \in 1..Len(list) :
         list[i].id = id /\ \A k \in 1..(i - 1) : list[k].id # id
  ELSE 0

\* the Job[] that onSubmit of the dialog builds from the optimizer's jobs
\* (part_002 lines 96-108)
OptimizedJobs(currentJobs, aiJobs) ==
  [i \in 1..Len(currentJobs) |->
     LET found == FindJob(aiJobs, currentJobs[i].id)
     IN IF found # 0
        THEN [currentJobs[i] EXCEPT !.scheduledSegments = aiJobs[found].scheduledSegments]
        ELSE currentJobs[i]]

\* the segment's date is not on a weekend
SegmentNotOnWeekend(seg) ==
  ~isWeekend(parseISO(seg.date))

\* the date string of a Date moved to a weekday; format throws a
\* RangeError for an invalid Date
WeekdayString(date) ==
  format(IF isWeekend(date) THEN nextMonday(date) ELSE date)

\* one job of handleScheduleOptimizedByAI (lines 380-394)
MergedJob(currentJob, aiVersion) ==
  LET validSegments == SelectSeq(aiVersion.scheduledSegments, SegmentNotOnWeekend)
      newPreferredStartDate ==
        IF Len(validSegments) > 0
        THEN WeekdayString(parseISO(validSegments[1].date))
        ELSE IF aiVersion.preferredStartDate # NoDate
             THEN WeekdayString(parseISO(aiVersion.preferredStartDate))
        ELSE currentJob.preferredStartDate
  IN [currentJob EXCEPT !.scheduledSegments = validSegments,
                        !.preferredStartDate = newPreferredStartDate]

\* format is called with an invalid Date while the job is merged
MergedJobThrows(aiVersion) ==
  LET validSegments == SelectSeq(aiVersion.scheduledSegments, SegmentNotOnWeekend)
  IN IF Len(validSegments) > 0
     THEN ~isValid(parseISO(validSegments[1].date))
     ELSE aiVersion.preferredStartDate # NoDate
            /\ ~isValid(parseISO(aiVersion.preferredStartDate))

\* a merge that adds the jobs of the optimizer that the page does not hold
handleScheduleOptimizedByAIAdding(list, optimizedJobsFromAI) ==
  [i \in 1..Len(optimizedJobsFromAI) |->
     LET found == FindJob(list, optimizedJobsFromAI[i].id)
     IN IF found # 0 THEN MergedJob(list[found], optimizedJobsFromAI[i])
        ELSE optimizedJobsFromAI[i]]

\* handleScheduleOptimizedByAI (lines 376-401): the jobs state after it;
\* list is the jobs of the render that made the handler
handleScheduleOptimizedByAI(list, optimizedJobsFromAI) ==
  [i \in 1..Len(list) |->
     LET found == FindJob(optimizedJobsFromAI, list[i].id)
     IN IF found # 0 THEN MergedJob(list[i], optimizedJobsFromAI[found])
        ELSE list[i]]

\* the handler throws on some job
MergeThrows(list, optimizedJobsFromAI) ==
  \E i \in 1..Len(list) :
    LET found == FindJob(optimizedJobsFromAI, list[i].id)
    IN found # 0 /\ MergedJobThrows(optimizedJobsFromAI[found])

\* a submit button that is never disabled
SubmitAlwaysEnabled(loading) ==
  FALSE

\* <Button type="submit" disabled={isLoading}> (part_002 line 179)
SubmitDisabled(loading) ==
  loading

\* the most user actions in one behaviour: actions on the page and
\* submissions of the optimizer dialog
MaxEdits == 2

\* what the job form submits (job-form-dialog.tsx lines 29-35: a name, at
\* least 0.1 hours, an optional date string)
JobFormChoices ==
  { Job(NoDate, "Rush order", "bg-amber-500", Tenths(40), TRUE, <<2024, 1, 20>>),
    Job(NoDate, "Small order", "bg-violet-500", Tenths(14), FALSE, NoDate) }

\* what the settings form submits: other weekday hours; an override of a
\* weekday; two overrides of one date; an override of a Saturday
SettingsFormChoices ==
  { OddHours,
    [dailyCapacityByDay |-> [Week(Tenths(80)) EXCEPT !.friday = Tenths(40)],
     capacityOverrides |-> << [date |-> <<2024, 1, 16>>, hours |-> Zero] >>],
    [dailyCapacityByDay |-> Week(Tenths(80)),
     capacityOverrides |-> << [date |-> <<2024, 1, 4>>, hours |-> Tenths(40)],
                              [date |-> <<2024, 1, 4>>, hours |-> Tenths(95)] >>],
    [dailyCapacityByDay |-> Week(Tenths(80)),
     capacityOverrides |-> << [date |-> <<2024, 1, 6>>, hours |-> Tenths(40)] >>] }

\* the jobs of an optimizer's answer: segments on a Saturday and a Monday
\* for job-1; no segment and a Sunday as preferred date for job-2, and a job
\* the page does not hold; a segment of job-3 on a date that is none
AIJobLists ==
  { << [id |-> <<1>>, preferredStartDate |-> NoDate,
        scheduledSegments |-> << [date |-> <<2024, 1, 20>>, hours |-> Tenths(80)],
                                 [date |-> <<2024, 1, 22>>, hours |-> Tenths(80)] >>] >>,
    << [id |-> <<2>>, preferredStartDate |-> <<2024, 1, 21>>,
        scheduledSegments |-> <<>>],
       [id |-> <<9>>, preferredStartDate |-> NoDate,
        scheduledSegments |-> << [date |-> <<2024, 1, 23>>, hours |-> Tenths(80)] >>] >>,
    << [id |-> <<3>>, preferredStartDate |-> NoDate,
        scheduledSegments |-> << [date |-> <<2024, 2, 30>>, hours |-> Tenths(80)] >>] >> }

\* how a request ends: optimizeScheduleFlow throws; optimizedSchedule does
\* not parse; it parses to a value without a jobs list; it holds jobs
Responses ==
  { [kind |-> k, jobs |-> <<>>] : k \in {"throws", "unparsable", "noJobs"} }
    \cup { [kind |-> "ok", jobs |-> l] : l \in AIJobLists }

InitPage ==
  /\ settings = INITIAL_SETTINGS
  /\ today = InvalidDate
  /\ allocatedSchedule = <<>>
  /\ heap = <<>>
  /\ jobsToAllocate = 0
  /\ planningStartDateString = NoDate
  /\ updatedJobs = 0
  /\ planningStartDate = InvalidDate
  /\ jobIndex = 0
  /\ remainingHours = Zero
  /\ currentDate = InvalidDate
  /\ dateStr = NoDate
  /\ dayCapacity = Zero
  /\ safetyCounter = 0
  /\ warnings = <<>>
  /\ pc = "idle"
  /\ calls = 0
  /\ argAtCall = <<>>
  /\ previous = NoResult
  /\ RangeIdle
  /\ PageIdle

\* the effects of the first render (lines 265-281; the reallocation effect
\* of that render finds isLoading true and does nothing)
Mount ==
  /\ isLoading
  /\ \E now \in Todays :
       /\ today' = now
       /\ currentPlanningDate' = format(MountDate(now))
       /\ jobs' = dynamicInitialJobs(now)
  /\ isLoading' = FALSE
  /\ effectDue' = TRUE
  /\ UNCHANGED <<settings, allocatedSchedule, viewMode, clock, edits, isOpen,
                 optimizerIsLoading, inFlight, lastResponse, toasts>>
  /\ UNCHANGED <<allocatorRest, rangeVars>>

\* the reallocation effect (lines 316-320), run after the render that
\* follows a change of jobs, settings, currentPlanningDate or isLoading
Reallocate ==
  /\ effectDue
  /\ allocatedSchedule' =
       IF ~isLoading /\ currentPlanningDate # NoDate
       THEN reallocateSchedule(jobs, settings, currentPlanningDate, isLoading,
                               allocatedSchedule, today)
       ELSE allocatedSchedule
  /\ effectDue' = FALSE
  /\ UNCHANGED <<settings, today, jobs, currentPlanningDate, viewMode, isLoading,
                 clock, edits, isOpen, optimizerIsLoading, inFlight,
                 lastResponse, toasts>>
  /\ UNCHANGED <<allocatorRest, rangeVars>>

\* the page takes a user action: it is loaded, its effects have run (React
\* runs them before the next event) and the modal dialog is closed
PageReady ==
  ~isLoading /\ ~effectDue /\ ~isOpen /\ edits < MaxEdits

\* the job that is edited, and the job that is dragged: the first and the
\* last of the list
EditedIds ==
  { jobs[1].id }

DraggedIds ==
  { jobs[Len(jobs)].id }

\* the job form is submitted, for a new job or for a job of the list
SaveJob ==
  /\ PageReady
  /\ \E jobData \in JobFormChoices, id \in {NoDate} \cup EditedIds :
       /\ jobs' = handleSaveJob(jobs, jobData, id, clock)
       /\ clock' = IF id = NoDate THEN clock + 1 ELSE clock
       /\ toasts' = IF id = NoDate THEN "Job Added" ELSE "Job Updated"
  /\ effectDue' = TRUE
  /\ edits' = edits + 1
  /\ UNCHANGED <<settings, today, allocatedSchedule, currentPlanningDate,
                 viewMode, isLoading, isOpen, optimizerIsLoading, inFlight,
                 lastResponse>>
  /\ UNCHANGED <<allocatorRest, rangeVars>>

\* the first and the last day column shown
DropTargets ==
  LET shown == dateRangeToDisplay(currentPlanningDate, viewMode, today)
  IN IF shown = <<>> THEN {} ELSE {shown[1], shown[Len(shown)]}

\* a job card is dropped on a day column
DropJob ==
  /\ PageReady
  /\ \E jobId \in DraggedIds, targetDateStr \in DropTargets :
       jobs' = handleDropJob(jobs, jobId, targetDateStr)
  /\ toasts' = "Job Moved"
  /\ effectDue' = TRUE
  /\ edits' = edits + 1
  /\ UNCHANGED <<settings, today, allocatedSchedule, currentPlanningDate,
                 viewMode, isLoading, clock, isOpen, optimizerIsLoading,
                 inFlight, lastResponse>>
  /\ UNCHANGED <<allocatorRest, rangeVars>>

\* the settings form is submitted and passes its schema
ApplySettings ==
  /\ PageReady
  /\ \E data \in SettingsFormChoices :
       /\ SettingsSchemaAccepts(data)
       /\ settings' = handleSettingsChange(SettingsPanelOnSubmit(data))
  /\ toasts' = "Settings Updated"
  /\ effectDue' = TRUE
  /\ edits' = edits + 1
  /\ UNCHANGED <<today, allocatedSchedule, jobs, currentPlanningDate, viewMode,
                 isLoading, clock, isOpen, optimizerIsLoading, inFlight,
                 lastResponse>>
  /\ UNCHANGED <<allocatorRest, rangeVars>>

\* the Next button
Next2Weeks ==
  /\ PageReady
  /\ currentPlanningDate # NoDate
  /\ currentPlanningDate' = handleNext(currentPlanningDate, viewMode)
  /\ effectDue' = (currentPlanningDate' # currentPlanningDate)
  /\ edits' = edits + 1
  /\ UNCHANGED <<settings, today, allocatedSchedule, jobs, viewMode, isLoading,
                 clock, isOpen, optimizerIsLoading, inFlight,
                 lastResponse, toasts>>
  /\ UNCHANGED <<allocatorRest, rangeVars>>

\* the Prev button
Prev2Weeks ==
  /\ PageReady
  /\ currentPlanningDate # NoDate
  /\ currentPlanningDate' = handlePrev(currentPlanningDate, viewMode).date
  /\ effectDue' = (currentPlanningDate' # currentPlanningDate)
  /\ edits' = edits + 1
  /\ UNCHANGED <<settings, today, allocatedSchedule, jobs, viewMode, isLoading,
                 clock, isOpen, optimizerIsLoading, inFlight,
                 lastResponse, toasts>>
  /\ UNCHANGED <<allocatorRest, rangeVars>>

\* the view toggle (onValueChange)
SetViewMode ==
  /\ PageReady
  /\ \E value \in {"2_WEEKS", "MONTH"} :
       value # viewMode /\ viewMode' = value
  /\ edits' = edits + 1
  /\ UNCHANGED <<settings, today, allocatedSchedule, jobs, currentPlanningDate,
                 isLoading, effectDue, clock, isOpen, optimizerIsLoading,
                 inFlight, lastResponse, toasts>>
  /\ UNCHANGED <<allocatorRest, rangeVars>>

\* onOpenChange of the dialog (part_002 lines 131-137): the trigger opens
\* it; Escape, the close button or a click outside close it
OpenChange ==
  /\ ~isLoading /\ ~effectDue
  /\ isOpen' = ~isOpen
  /\ UNCHANGED <<settings, today, allocatedSchedule, jobs, currentPlanningDate,
                 viewMode, isLoading, effectDue, clock, edits,
                 optimizerIsLoading, inFlight, lastResponse, toasts>>
  /\ UNCHANGED <<allocatorRest, rangeVars>>

\* onSubmit of the dialog up to its await (part_002 lines 78-88): the
\* request is sent; its continuation holds the jobs of this render
Submit ==
  /\ ~isLoading /\ ~effectDue
  /\ isOpen
  /\ ~SubmitDisabled(optimizerIsLoading)
  /\ edits < MaxEdits
  /\ optimizerIsLoading' = TRUE
  /\ inFlight' = Append(inFlight, [jobs |-> jobs])
  /\ edits' = edits + 1
  /\ UNCHANGED <<settings, today, allocatedSchedule, jobs, currentPlanningDate,
                 viewMode, isLoading, effectDue, clock, isOpen,
                 lastResponse, toasts>>
  /\ UNCHANGED <<allocatorRest, rangeVars>>

\* every answer taken for a schedule to merge
MergesAnyAnswer(request, response) ==
  TRUE

\* the request's jobs are merged
Merges(request, response) ==
  /\ response.kind = "ok"
  /\ ~MergeThrows(request.jobs, OptimizedJobs(request.jobs, response.jobs))

\* onSubmit of the dialog from its await on (part_002 lines 88-127)
Respond ==
  /\ ~effectDue
  /\ \E i \in 1..Len(inFlight), response \in Responses :
       LET request == inFlight[i]
       IN /\ inFlight' = [k \in 1..(Len(inFlight) - 1) |->
                            IF k < i THEN inFlight[k] ELSE inFlight[k + 1]]
          /\ lastResponse' = response
          /\ IF Merges(request, response)
             THEN /\ jobs' = handleScheduleOptimizedByAI(request.jobs,
                               OptimizedJobs(request.jobs, response.jobs))
                  /\ effectDue' = TRUE
                  /\ toasts' = "Schedule Optimized"
             ELSE /\ UNCHANGED <<jobs, effectDue>>
                  /\ toasts' = "Optimization Failed"
  /\ optimizerIsLoading' = FALSE
  /\ UNCHANGED <<settings, today, allocatedSchedule, currentPlanningDate,
                 viewMode, isLoading, clock, edits, isOpen>>
  /\ UNCHANGED <<allocatorRest, rangeVars>>

NextPage ==
  \/ Mount
  \/ Reallocate
  \/ SaveJob
  \/ DropJob
  \/ ApplySettings
  \/ Next2Weeks
  \/ Prev2Weeks
  \/ SetViewMode
  \/ OpenChange
  \/ Submit
  \/ Respond

SpecPage ==
  InitPage /\ [][NextPage]_vars

(***************************************************************************)
(* Properties of allocateJobs and getCapacityForDate.                      *)
(***************************************************************************)
RECURSIVE SumHours(_, _, _)
\* hours(seq[1]) + ... + hours(seq[n]) added from the left, starting at 0
SumHours(seq, hours(_), n) ==
  IF n = 0 THEN Zero ELSE NumAdd(SumHours(seq, hours, n - 1), hours(seq[n]))

SegmentHours(segment) ==
  segment.hours

AssignmentHours(assignment) ==
  assignment.hoursAssigned

\* the day of the week of a calendar day, counted from a known Monday:
\* 0 = Monday, ..., 5 = Saturday, 6 = Sunday
DayOfWeek(date) ==
  (date - parseISO(<<2024, 1, 1>>)) % 7

IsWeekdayString(str) ==
  IsDateString(str) /\ DayOfWeek(parseISO(str)) \in 0..4

\* the least calendar day from date on (after it when strict) that is a Monday
MondayFrom(date, strict) ==
  CHOOSE m \in date..(date + 7) :
    /\ DayOfWeek(m) = 0
    /\ strict => m > date
    /\ \A k \in date..(m - 1) : DayOfWeek(k) # 0 \/ (strict /\ k = date)

\* the next weekday on or after date
NextWeekday(date) ==
  IF DayOfWeek(date) \in 0..4 THEN date ELSE MondayFrom(date, FALSE)

\* the binary64 number next above cap (cap itself for 0)
NextAbove(cap) ==
  IF BitLength(cap) < SignificandBits THEN cap
  ELSE AddExact(cap, OneUnit(Pow2(BitLength(cap) - SignificandBits)))

\* cap is a whole number of half hours
HalfHourMultiple(cap) ==
  cap[1] = 0 /\ cap[2] = 0 /\ cap[3] = 0 /\ cap[4] % 128 = 0

\* the jobs of updatedJobs whose placement has begun in the current call
Processed ==
  { i \in 1..Len(UpdatedJobs) :
      \/ pc = "done"
      \/ pc \in {"nextJob", "loop"} /\ i < jobIndex
      \/ pc = "loop" /\ i = jobIndex }

\* C1, as claimed: in every state of a run, every date of the schedule has
\* totalHoursAssigned <= the capacity of the date, and the capacity bar of the
\* day column does not report the day as over capacity.
NeverOverCapacity ==
  \A d \in DOMAIN allocatedSchedule :
    /\ NumLE(allocatedSchedule[d].totalHoursAssigned, getCapacityForDate(d, settings))
    /\ ~isOverCapacity(allocatedSchedule[d].totalHoursAssigned,
                       getCapacityForDateFromSettings(d, settings))

\* How far a day can go over: totalHoursAssigned is at most the next binary64
\* number above the capacity of the date, and when the capacity is a whole
\* number of half hours it is <= the capacity and the capacity bar does not
\* report the day as over capacity.
WithinCapacityUpToRounding ==
  \A d \in DOMAIN allocatedSchedule :
    LET total == allocatedSchedule[d].totalHoursAssigned
        cap == getCapacityForDate(d, settings)
    IN /\ NumLE(total, NextAbove(cap))
       /\ HalfHourMultiple(cap) =>
            /\ NumLE(total, cap)
            /\ ~isOverCapacity(total, getCapacityForDateFromSettings(d, settings))

\* C2: no key of the schedule and no date of a segment or an assignment is a
\* Saturday or a Sunday, and when the planning start date is a Saturday or a
\* Sunday the planning start is the Monday after it, where a job without a
\* preferred date begins.
NoWeekendDates ==
  /\ \A d \in DOMAIN allocatedSchedule :
        /\ IsWeekdayString(d)
        /\ allocatedSchedule[d].date = d
        /\ \A k \in 1..Len(allocatedSchedule[d].assignments) :
              allocatedSchedule[d].assignments[k].date = d
  /\ \A i \in 1..Len(UpdatedJobs) :
        \A k \in 1..Len(UpdatedJobs[i].scheduledSegments) :
          IsWeekdayString(UpdatedJobs[i].scheduledSegments[k].date)
  /\ LET parsed == parseISO(planningStartDateString)
     IN (pc \in {"nextJob", "loop", "done"} /\ parsed # InvalidDate
           /\ DayOfWeek(parsed) \in {5, 6}) =>
          /\ planningStartDate = MondayFrom(parsed, TRUE)
          /\ (pc = "loop" /\ safetyCounter = 0
                 /\ UpdatedJobs[jobIndex].preferredStartDate = NoDate) =>
                currentDate = MondayFrom(parsed, TRUE)

\* a run planned from a Saturday has placed a job preferring a weekend day
WeekendPlanningAndPreference ==
  /\ pc = "done"
  /\ DayOfWeek(parseISO(planningStartDateString)) = 5
  /\ \E i \in 1..Len(UpdatedJobs) :
        /\ UpdatedJobs[i].preferredStartDate # NoDate
        /\ DayOfWeek(parseISO(UpdatedJobs[i].preferredStartDate)) \in {5, 6}
        /\ UpdatedJobs[i].scheduledSegments # <<>>

\* C3, as claimed: for every job of the returned updatedJobs the sum of the
\* hours of its segments is <= requiredHours, and equals requiredHours unless
\* its placement loop stopped at the bound of 730 steps.
SegmentsSumToRequiredHours ==
  pc = "done" =>
    \A i \in 1..Len(UpdatedJobs) :
      LET job == UpdatedJobs[i]
          sum == SumHours(job.scheduledSegments, SegmentHours,
                          Len(job.scheduledSegments))
      IN /\ NumLE(sum, job.requiredHours)
         /\ (\A w \in 1..Len(warnings) : warnings[w] # job.id) =>
              sum = job.requiredHours

\* C4: in every state of a run each DayData of the schedule has
\* totalHoursAssigned equal to the sum of hoursAssigned over its assignments.
TotalIsSumOfAssignments ==
  \A d \in DOMAIN allocatedSchedule :
    allocatedSchedule[d].totalHoursAssigned =
      SumHours(allocatedSchedule[d].assignments, AssignmentHours,
               Len(allocatedSchedule[d].assignments))

\* a day holds the assignments of two jobs
DayWithTwoAssignments ==
  \E d \in DOMAIN allocatedSchedule :
    /\ Len(allocatedSchedule[d].assignments) >= 2
    /\ allocatedSchedule[d].assignments[1].jobId # allocatedSchedule[d].assignments[2].jobId

\* C5, as claimed: a call on the same jobs, settings and planning start date
\* as the call before it returns the same schedule and the same updatedJobs,
\* and a call on the updatedJobs the call before it returned returns the same
\* schedule.
SameResultOnRerun ==
  (pc = "done" /\ calls >= 2) =>
    /\ allocatedSchedule = previous.allocatedSchedule
    /\ ~previous.ownOutput => UpdatedJobs = previous.updatedJobs

\* C5, amended: the same holds of two calls that also read the same current
\* date (the current date is read only when the planning start date string
\* does not parse).
SameResultOnRerunSameDay ==
  (pc = "done" /\ calls >= 2 /\ today = previous.today) =>
    /\ allocatedSchedule = previous.allocatedSchedule
    /\ ~previous.ownOutput => UpdatedJobs = previous.updatedJobs

\* a second call on the first call's updatedJobs, both reading the same
\* current date, has returned
RerunOnOwnOutput ==
  /\ pc = "done"
  /\ calls >= 2
  /\ previous.ownOutput
  /\ today # InvalidDate
  /\ today = previous.today
  /\ Len(UpdatedJobs) >= 2
  /\ allocatedSchedule # <<>>

SegmentDates(job) ==
  { job.scheduledSegments[k].date : k \in 1..Len(job.scheduledSegments) }

\* the hours of job on the date d of one of its segments
HoursOn(job, d) ==
  job.scheduledSegments[CHOOSE k \in 1..Len(job.scheduledSegments) :
                          job.scheduledSegments[k].date = d].hours

\* u is urgent, n is not, and they are equal otherwise
EqualButUrgency(u, n) ==
  /\ u.isUrgent
  /\ ~n.isUrgent
  /\ u.requiredHours = n.requiredHours
  /\ u.preferredStartDate = n.preferredStartDate

\* C6, as claimed: for an urgent job U and a non-urgent job N processed after
\* it and equal to it otherwise, U's hours are not less than N's hours on
\* every date where both have hours.
UrgentNotLessOnSharedDates ==
  pc = "done" =>
    \A i, j \in 1..Len(UpdatedJobs) :
      (i < j /\ EqualButUrgency(UpdatedJobs[i], UpdatedJobs[j])) =>
        \A d \in SegmentDates(UpdatedJobs[i]) \cap SegmentDates(UpdatedJobs[j]) :
          NumLE(HoursOn(UpdatedJobs[j], d), HoursOn(UpdatedJobs[i], d))

\* C6, amended: U is processed before N, and on every date on which N has
\* hours and which is earlier than the date of U's last segment, U has hours
\* too and not less than N; on the date of U's last segment, where U takes
\* only what it still needs, and after it N may have more hours than U.
UrgentNotLessBeforeItsLastDate ==
  pc = "done" =>
    \A i, j \in 1..Len(UpdatedJobs) :
      EqualButUrgency(UpdatedJobs[i], UpdatedJobs[j]) =>
        /\ i < j
        /\ \A d \in SegmentDates(UpdatedJobs[j]) :
              \/ \A e \in SegmentDates(UpdatedJobs[i]) : parseISO(e) <= parseISO(d)
              \/ /\ d \in SegmentDates(UpdatedJobs[i])
                 /\ NumLE(HoursOn(UpdatedJobs[j], d), HoursOn(UpdatedJobs[i], d))

\* U is spread over several dates and N has more hours than U on the date of
\* U's last segment
NonUrgentTakesRestOfLastDate ==
  /\ pc = "done"
  /\ \E i, j \in 1..Len(UpdatedJobs) :
        LET U == UpdatedJobs[i]
            N == UpdatedJobs[j]
            last == U.scheduledSegments[Len(U.scheduledSegments)].date
        IN /\ EqualButUrgency(U, N)
           /\ Len(U.scheduledSegments) >= 2
           /\ last \in SegmentDates(N)
           /\ NumLess(HoursOn(U, last), HoursOn(N, last))

Ids(list) ==
  [i \in 1..Len(list) |-> list[i].id]

\* the lists holding the jobs of list in some order
PermutationsOf(list) ==
  { [i \in 1..Len(list) |-> list[p[i]]] :
      p \in { q \in [1..Len(list) -> 1..Len(list)] :
                \A i, j \in 1..Len(list) : q[i] = q[j] => i = j } }

\* the claimed order of two jobs with different ids: urgent before non-urgent,
\* then the earlier weekend-normalized preferred date, a job with a date
\* before a job without one, then ascending id
Precedes(a, b) ==
  LET hasA == a.preferredStartDate # NoDate
      hasB == b.preferredStartDate # NoDate
      dateA == NextWeekday(parseISO(a.preferredStartDate))
      dateB == NextWeekday(parseISO(b.preferredStartDate))
  IN IF a.isUrgent # b.isUrgent THEN a.isUrgent
     ELSE IF hasA /\ hasB /\ dateA # dateB THEN dateA < dateB
     ELSE IF hasA # hasB THEN hasA
     ELSE localeCompare(a.id, b.id) < 0

\* C7: the jobs are processed in the order by (urgent first, earlier
\* weekend-normalized preferred date, dated before undated, ascending id), and
\* every permutation of the input list is sorted into this same order.
ProcessingOrder ==
  pc \in {"nextJob", "loop", "done"} =>
    /\ \A i, j \in 1..Len(UpdatedJobs) :
          i < j => Precedes(UpdatedJobs[i], UpdatedJobs[j])
    /\ \E perm \in PermutationsOf(argAtCall) : Ids(perm) = Ids(UpdatedJobs)
    /\ \A perm \in PermutationsOf(argAtCall) :
          Ids(SortJobs(perm)) = Ids(UpdatedJobs)

\* three jobs, urgent and not, dated (one on a weekend) and undated, have been
\* put into another order than the one they were passed in
ThreeJobsReordered ==
  /\ pc = "done"
  /\ Len(UpdatedJobs) = 3
  /\ Ids(UpdatedJobs) # Ids(argAtCall)
  /\ \E i, j \in 1..3 : UpdatedJobs[i].isUrgent /\ ~UpdatedJobs[j].isUrgent
  /\ \E i, j \in 1..3 :
        /\ UpdatedJobs[i].preferredStartDate = NoDate
        /\ UpdatedJobs[j].preferredStartDate # NoDate
        /\ DayOfWeek(parseISO(UpdatedJobs[j].preferredStartDate)) \in {5, 6}

\* the capacity C8 describes: 0 for a Saturday, a Sunday or a string that is
\* not a date, else the hours of the override for the date, else the default
\* of the weekday
ReferenceCapacity(str, s) ==
  LET date == parseISO(str)
      matches == { k \in 1..Len(s.capacityOverrides) :
                     s.capacityOverrides[k].date = str }
      first == CHOOSE k \in matches : \A m \in matches : k <= m
      day == DayOfWeek(date)
  IN IF date = InvalidDate \/ day \in {5, 6} THEN Zero
     ELSE IF matches # {} THEN s.capacityOverrides[first].hours
     ELSE CASE day = 0 -> s.dailyCapacityByDay.monday
            [] day = 1 -> s.dailyCapacityByDay.tuesday
            [] day = 2 -> s.dailyCapacityByDay.wednesday
            [] day = 3 -> s.dailyCapacityByDay.thursday
            [] day = 4 -> s.dailyCapacityByDay.friday

\* C8, as claimed: the capacity looked up for a date string, by the allocator
\* and by the day column, is the reference capacity: 0 for a weekend day or an
\* unparsable string even when an override exists for it, else the override's
\* hours, else the weekday default.
CapacityIsReference ==
  pc = "resolved" =>
    /\ dayCapacity = ReferenceCapacity(dateStr, settings)
    /\ getCapacityForDateFromSettings(dateStr, settings) =
         ReferenceCapacity(dateStr, settings)

\* the date C9 describes: the next weekday on or after the later of the
\* preferred date and the planning start
ReferenceStart(job) ==
  LET preferred == parseISO(job.preferredStartDate)
  IN NextWeekday(IF job.preferredStartDate # NoDate /\ preferred # InvalidDate
                    /\ preferred > planningStartDate
                 THEN preferred ELSE planningStartDate)

\* C9: the first date the placement loop of a job considers is the next
\* weekday on or after the later of its preferred date and the planning start
\* date, and no segment of the job is dated before it.
StartsAtReferenceDate ==
  /\ (pc = "loop" /\ safetyCounter = 0) =>
        currentDate = ReferenceStart(UpdatedJobs[jobIndex])
  /\ (pc = "loop" /\ safetyCounter = 1) =>
        dateStr = format(ReferenceStart(UpdatedJobs[jobIndex]))
  /\ (pc = "nextJob" /\ safetyCounter = 1) =>
        dateStr = format(ReferenceStart(UpdatedJobs[jobIndex - 1]))
  /\ \A i \in Processed :
        \A k \in 1..Len(UpdatedJobs[i].scheduledSegments) :
          parseISO(UpdatedJobs[i].scheduledSegments[k].date)
            >= ReferenceStart(UpdatedJobs[i])

\* a job preferring a date before the planning start has been placed, its
\* first segment on the planning start
EarlyPreferenceStartsAtPlanningStart ==
  /\ pc = "done"
  /\ \E i \in 1..Len(UpdatedJobs) :
        /\ UpdatedJobs[i].preferredStartDate # NoDate
        /\ parseISO(UpdatedJobs[i].preferredStartDate) < planningStartDate
        /\ UpdatedJobs[i].scheduledSegments # <<>>
        /\ UpdatedJobs[i].scheduledSegments[1].date = format(planningStartDate)

\* C10: no step of a call changes the list jobsToAllocate refers to (its
\* jobs, their segments, their positions) or the settings; the changes are
\* made on the copy.
InputNotMutated ==
  [][(pc \in {"call", "nextJob", "loop"}) =>
       (jobsToAllocate' = jobsToAllocate
          /\ heap'[jobsToAllocate] = heap[jobsToAllocate]
          /\ settings' = settings)]_vars

\* a call has returned jobs in another order and with other segments than the
\* list it was passed, which still is as it was when the call began
CopyDiffersFromInput ==
  /\ pc = "done"
  /\ updatedJobs # jobsToAllocate
  /\ Ids(UpdatedJobs) # Ids(heap[jobsToAllocate])
  /\ \E i \in 1..Len(UpdatedJobs) : UpdatedJobs[i].scheduledSegments # <<>>
  /\ heap[jobsToAllocate] = argAtCall

\* C11: every call of allocateJobs returns, also with no capacity on any
\* day: the placement loop of a job makes at most 730 iterations, each
\* iteration either is counted or ends the loop, and after the loop the next
\* job is taken.
AlwaysTerminates ==
  /\ [](safetyCounter <= 730)
  /\ [][pc = "loop" =>
          \/ pc' = "loop" /\ jobIndex' = jobIndex
               /\ safetyCounter' = safetyCounter + 1 /\ safetyCounter' < 730
          \/ pc' = "nextJob" /\ jobIndex' = jobIndex + 1]_vars
  /\ (pc = "call") ~> (pc = "done")

\* a call under zero capacity has returned after the loop of its last job
\* ran to the bound
ReturnedAfterExhaustingBound ==
  /\ pc = "done"
  /\ settings = ZeroHours
  /\ Len(UpdatedJobs) = 2
  /\ safetyCounter = 730
  /\ allocatedSchedule = <<>>

\* C12: a warning is recorded for a job exactly when its placement loop ends
\* with hours remaining; the call goes on to the next job, the segments of the
\* jobs already processed stay as they were placed, nothing else is logged,
\* and at the return every job has been processed; with no capacity on any
\* day every job is warned about and has no segment.
WarningExactlyWhenHoursRemain ==
  /\ [][(pc = "loop" /\ pc' # "loop") =>
          ( /\ pc' = "nextJob" /\ jobIndex' = jobIndex + 1
            /\ warnings' = IF NumLess(Zero, remainingHours')
                            THEN Append(warnings, UpdatedJobs[jobIndex].id)
                            ELSE warnings )]_vars
  /\ [][((pc = "loop" /\ pc' = "loop") \/ pc = "nextJob") =>
          (warnings' = warnings)]_vars
  /\ [][(pc \in {"nextJob", "loop"}) =>
          (\A i \in 1..(jobIndex - 1) :
             UpdatedJobs'[i].scheduledSegments = UpdatedJobs[i].scheduledSegments)]_vars
  /\ [](pc = "done" => jobIndex = Len(UpdatedJobs) + 1)
  /\ [](pc = "done" /\ settings = ZeroHours =>
          /\ Len(warnings) = Len(UpdatedJobs)
          /\ \A i \in 1..Len(UpdatedJobs) :
                warnings[i] = UpdatedJobs[i].id /\ UpdatedJobs[i].scheduledSegments = <<>>)

WarnedJobKeepsItsSegment ==
  /\ pc = "done"
  /\ settings = ScarceHours
  /\ Len(UpdatedJobs) = 2
  /\ warnings = <<UpdatedJobs[2].id>>
  /\ Len(UpdatedJobs[1].scheduledSegments) = 1
  /\ Len(UpdatedJobs[2].scheduledSegments) = 1
  /\ NumLess(Zero, remainingHours)

\* C13: when the planning start date string is not a date, the call plans
\* from today's date moved to a weekday: from today itself on Monday to
\* Friday, from the following Monday on a Saturday or Sunday.
UnparsableStartPlansFromToday ==
  (pc \in {"nextJob", "loop", "done"}
     /\ ~isValid(parseISO(planningStartDateString)))
  => planningStartDate = NextWeekday(today)

\* C14: for a valid start date and n >= 1, generateDateRange returns exactly
\* n dates: the first is the start date moved to a weekday, each next one is
\* the next weekday after the one before, and none is a Saturday or Sunday.
RangeOfExactlyNWeekdays ==
  (dateRange # NoRange /\ isValid(startDate) /\ numDaysInPeriod >= 1) =>
    /\ Len(dateRange) = numDaysInPeriod
    /\ dateRange[1] = format(NextWeekday(startDate))
    /\ \A i \in 1..Len(dateRange) : IsWeekdayString(dateRange[i])
    /\ \A i \in 1..(Len(dateRange) - 1) :
          parseISO(dateRange[i + 1]) = NextWeekday(parseISO(dateRange[i]) + 1)

\* the session is settled: the page is loaded and the reallocation effect
\* has run after the last change
Settled ==
  ~isLoading /\ ~effectDue

AllocatedSegments(id) ==
  LET updated == allocateJobs(jobs, settings, currentPlanningDate, today).updatedJobs
  IN updated[FindJob(updated, id)].scheduledSegments

\* C16: in every settled state of the session, each job's scheduledSegments
\* in the job list are the segments that the allocator's run over the
\* current jobs and settings computed for that job.
JobsHoldAllocatedSegments ==
  Settled =>
    \A i \in 1..Len(jobs) :
      jobs[i].scheduledSegments = AllocatedSegments(jobs[i].id)

\* the job as the claim of C17 merges it with the optimizer's job of its id
ClaimedMerge(job, aiJob) ==
  LET remaining == SelectSeq(aiJob.scheduledSegments, SegmentNotOnWeekend)
  IN [job EXCEPT
        !.scheduledSegments = remaining,
        !.preferredStartDate =
          IF Len(remaining) > 0 THEN remaining[1].date
          ELSE IF aiJob.preferredStartDate # NoDate
               THEN format(NextWeekday(parseISO(aiJob.preferredStartDate)))
          ELSE @]

\* C17: a step that merges an optimizer result leaves the job list of the
\* same length and ids; a job whose id is in the result gets the returned
\* segments without the weekend-dated ones, and as preferred date the date of
\* the first remaining segment, else the result's preferred date moved to a
\* weekday, else its own; every other job and attribute is unchanged.
MergeOfOptimizerResult ==
  [][(toasts' = "Schedule Optimized" /\ lastResponse' # lastResponse
        /\ Len(inFlight') < Len(inFlight)) =>
       ( /\ Len(jobs') = Len(jobs)
         /\ \A i \in 1..Len(jobs) :
              LET found == FindJob(lastResponse'.jobs, jobs[i].id)
              IN jobs'[i] = IF found # 0
                            THEN ClaimedMerge(jobs[i], lastResponse'.jobs[found])
                            ELSE jobs[i] )]_vars

\* C18: when an optimizer request fails (the call throws, the answer does
\* not parse, or it has no jobs list), the step that handles it leaves the
\* job list, the settings and the displayed schedule as they are, reports
\* the failure, clears the dialog's isLoading, and sends no new request.
FailureMergesNothing ==
  [][(Len(inFlight') < Len(inFlight)
        /\ lastResponse'.kind \in {"throws", "unparsable", "noJobs"}) =>
       ( /\ jobs' = jobs
         /\ settings' = settings
         /\ allocatedSchedule' = allocatedSchedule
         /\ effectDue' = effectDue
         /\ toasts' = "Optimization Failed"
         /\ optimizerIsLoading' = FALSE
         /\ Len(inFlight') = Len(inFlight) - 1
         /\ \A k \in 1..Len(inFlight') : \E n \in 1..Len(inFlight) :
              inFlight'[k] = inFlight[n] )]_vars

FailedRequestHandled ==
  /\ lastResponse.kind = "unparsable"
  /\ toasts = "Optimization Failed"
  /\ ~optimizerIsLoading
  /\ inFlight = <<>>
  /\ Len(jobs) = 4
  /\ allocatedSchedule # <<>>

\* C19: at most one optimizer request is in flight at any time, and while
\* one is, the dialog's isLoading is set (it disables the submit button),
\* also after the dialog was closed and opened again.
OneRequestInFlight ==
  /\ Len(inFlight) <= 1
  /\ inFlight # <<>> => optimizerIsLoading

ReopenedWhileInFlight ==
  /\ Len(inFlight) = 1
  /\ isOpen
  /\ optimizerIsLoading
  /\ jobs # inFlight[1].jobs

\* C20: after any sequence of Apply Settings submissions, the stored
\* capacityOverrides hold at most one entry per date and only weekday dates,
\* so that the capacity of a date is the hours of every override of that date.
OverridesUniqueWeekdays ==
  LET overrides == settings.capacityOverrides
  IN /\ \A i \in 1..Len(overrides) : IsWeekdayString(overrides[i].date)
     /\ \A i, k \in 1..Len(overrides) :
          overrides[i].date = overrides[k].date => i = k
     /\ \A i \in 1..Len(overrides) :
          getCapacityForDate(overrides[i].date, settings) = overrides[i].hours

\* seq is the beginning of longer
IsPrefix(seq, longer) ==
  /\ Len(seq) <= Len(longer)
  /\ \A k \in 1..Len(seq) : longer[k] = seq[k]

\* C21: during a run placement is append-only: a step of the run leaves
\* every segment and assignment that was appended where and as it is, no
\* date's totalHoursAssigned decreases, and the segments of the jobs processed
\* before the current one stay exactly as they were.
PlacementIsAppendOnly ==
  /\ [][(pc = "loop") =>
          ( /\ IsPrefix(UpdatedJobs[jobIndex].scheduledSegments,
                        UpdatedJobs'[jobIndex].scheduledSegments)
            /\ \A i \in 1..Len(UpdatedJobs) :
                 i # jobIndex => UpdatedJobs'[i] = UpdatedJobs[i] )]_vars
  /\ [][(pc \in {"nextJob", "loop"}) =>
          ( /\ \A i \in 1..(jobIndex - 1) :
                 UpdatedJobs'[i].scheduledSegments = UpdatedJobs[i].scheduledSegments
            /\ \A d \in DOMAIN allocatedSchedule :
                 /\ d \in DOMAIN allocatedSchedule'
                 /\ IsPrefix(allocatedSchedule[d].assignments,
                             allocatedSchedule'[d].assignments)
                 /\ NumLE(allocatedSchedule[d].totalHoursAssigned,
                          allocatedSchedule'[d].totalHoursAssigned) )]_vars

LaterJobAddsToSharedDay ==
  /\ pc = "loop"
  /\ jobIndex = 3
  /\ Len(UpdatedJobs[2].scheduledSegments) >= 2
  /\ Len(UpdatedJobs[3].scheduledSegments) >= 1
  /\ \E d \in DOMAIN allocatedSchedule :
       /\ Len(allocatedSchedule[d].assignments) = 2
       /\ allocatedSchedule[d].assignments[1].jobId = UpdatedJobs[2].id
       /\ allocatedSchedule[d].assignments[2].jobId = UpdatedJobs[3].id

\* C22: in every state of a run every date of the schedule and every date of
\* a segment has a capacity > 0, every segment and every assignment has
\* hours > 0, and a loop step that looks up a date of capacity 0 places
\* nothing, keeps the hours of the job remaining and moves on to a later date.
NothingOnZeroCapacity ==
  /\ [](\A d \in DOMAIN allocatedSchedule :
          /\ NumLess(Zero, getCapacityForDate(d, settings))
          /\ \A k \in 1..Len(allocatedSchedule[d].assignments) :
                NumLess(Zero, allocatedSchedule[d].assignments[k].hoursAssigned))
  /\ [](\A i \in Processed :
          \A k \in 1..Len(UpdatedJobs[i].scheduledSegments) :
            LET seg == UpdatedJobs[i].scheduledSegments[k]
            IN /\ NumLess(Zero, getCapacityForDate(seg.date, settings))
               /\ NumLess(Zero, seg.hours))
  /\ [][(pc = "loop" /\ getCapacityForDate(dateStr', settings) = Zero) =>
          ( /\ heap' = heap
            /\ allocatedSchedule' = allocatedSchedule
            /\ remainingHours' = remainingHours
            /\ pc' = "loop" => currentDate' > parseISO(dateStr') )]_vars

\* a returned job went from Monday 2024-01-08 to Wednesday 2024-01-10, past
\* the Tuesday whose override is 0 hours
ClosedTuesdayPassed ==
  /\ pc = "done"
  /\ getCapacityForDate(<<2024, 1, 9>>, settings) = Zero
  /\ <<2024, 1, 9>> \notin DOMAIN allocatedSchedule
  /\ \E i \in 1..Len(UpdatedJobs) :
        \E k \in 1..(Len(UpdatedJobs[i].scheduledSegments) - 1) :
          /\ UpdatedJobs[i].scheduledSegments[k].date = <<2024, 1, 8>>
          /\ UpdatedJobs[i].scheduledSegments[k + 1].date = <<2024, 1, 10>>

\* the calendar days from the start of the current job's placement up to,
\* but not including, currentDate: the days the job has passed
DaysPassed ==
  JobStartDate(UpdatedJobs[jobIndex], planningStartDate)..(currentDate - 1)

WeekendTargets ==
  IF currentPlanningDate = NoDate THEN {}
  ELSE { format(d) : d \in { k \in parseISO(currentPlanningDate)..(parseISO(currentPlanningDate) + 7) :
                               DayOfWeek(k) \in {5, 6} } }

NoPriorityInversion ==
  \A a, b \in Processed :
    a < b =>
      \A k \in 1..Len(UpdatedJobs[b].scheduledSegments) :
        LET d == parseISO(UpdatedJobs[b].scheduledSegments[k].date)
        IN d >= JobStartDate(UpdatedJobs[a], planningStartDate) =>
             \A n \in 1..Len(UpdatedJobs[a].scheduledSegments) :
               parseISO(UpdatedJobs[a].scheduledSegments[n].date) <= d

\* C26, as claimed: when an optimizer's answer is merged, every job of the
\* list current at that time is in the list afterwards with its name, hours,
\* urgency and colour, and with its preferred start date when the answer
\* does not hold the job.
InFlightChangesSurviveMerge ==
  [][(Len(inFlight') < Len(inFlight) /\ toasts' = "Schedule Optimized") =>
        \A i \in 1..Len(jobs) :
          \E k \in 1..Len(jobs') :
            /\ jobs'[k].id = jobs[i].id
            /\ jobs'[k].name = jobs[i].name
            /\ jobs'[k].requiredHours = jobs[i].requiredHours
            /\ jobs'[k].isUrgent = jobs[i].isUrgent
            /\ jobs'[k].color = jobs[i].color
            /\ FindJob(lastResponse'.jobs, jobs[i].id) = 0 =>
                 jobs'[k].preferredStartDate = jobs[i].preferredStartDate]_vars

\* the positions of the assignments of job id in the DayData of date d
AssignmentsOf(id, d) ==
  IF d \in DOMAIN allocatedSchedule
  THEN { n \in 1..Len(allocatedSchedule[d].assignments) :
           allocatedSchedule[d].assignments[n].jobId = id }
  ELSE {}

\* C27: in a returned result job j has a segment {d, h} exactly when the
\* DayData of d holds one assignment of j, with hoursAssigned h: every
\* segment has its one assignment, every assignment its segment, the dates
\* of a job's segments increase strictly, and a day lists a job at most once.
SegmentsAndAssignmentsAgree ==
  pc = "done" =>
    /\ \A i \in 1..Len(UpdatedJobs) :
          LET segs == UpdatedJobs[i].scheduledSegments
          IN /\ \A k \in 1..Len(segs) :
                  LET at == AssignmentsOf(UpdatedJobs[i].id, segs[k].date)
                  IN /\ Cardinality(at) = 1
                     /\ \A n \in at :
                          allocatedSchedule[segs[k].date].assignments[n].hoursAssigned
                            = segs[k].hours
             /\ \A k \in 1..(Len(segs) - 1) :
                  parseISO(segs[k].date) < parseISO(segs[k + 1].date)
    /\ \A d \in DOMAIN allocatedSchedule :
          \A n \in 1..Len(allocatedSchedule[d].assignments) :
            LET a == allocatedSchedule[d].assignments[n]
            IN \E i \in 1..Len(UpdatedJobs) :
                 /\ UpdatedJobs[i].id = a.jobId
                 /\ \E k \in 1..Len(UpdatedJobs[i].scheduledSegments) :
                      UpdatedJobs[i].scheduledSegments[k] =
                        [date |-> d, hours |-> a.hoursAssigned]

\* the second call, made on the jobs the first returned, has returned jobs of
\* several segments that share a day
RerunResultWithSharedDay ==
  /\ pc = "done"
  /\ calls = 2
  /\ previous.ownOutput
  /\ \E i \in 1..Len(UpdatedJobs) : Len(UpdatedJobs[i].scheduledSegments) >= 3
  /\ \E d \in DOMAIN allocatedSchedule : Len(allocatedSchedule[d].assignments) >= 2

\* C28, as claimed: in a returned result every weekday from a job's start
\* date up to, but not including, the date of its last segment has
\* totalHoursAssigned equal to the capacity of the day.
NoGapsBeforeLastSegment ==
  pc = "done" =>
    \A i \in 1..Len(UpdatedJobs) :
      LET segs == UpdatedJobs[i].scheduledSegments
      IN segs # <<>> =>
           \A d \in JobStartDate(UpdatedJobs[i], planningStartDate)
                      ..(parseISO(segs[Len(segs)].date) - 1) :
             DayOfWeek(d) \in 0..4 =>
               DayDataOf(allocatedSchedule, format(d)).totalHoursAssigned
                 = getCapacityForDate(format(d), settings)

(***************************************************************************)
(* The navigation of SchedulerPage by itself: the planning date the mount  *)
(* effect sets, and presses of Next, Prev and the view toggle.             *)
(***************************************************************************)
\* the most presses in one behaviour
MaxPresses ==
  3

\* the days on which the page may be mounted: every day from 2023-12-25 to
\* 2025-01-05; June, September and December 2024 begin on a weekend
MountDays ==
  parseISO(<<2023, 12, 25>>)..parseISO(<<2025, 1, 5>>)

\* the page after its mount effect, as far as navigation reads it
InitNavigation ==
  /\ today \in MountDays
  /\ currentPlanningDate = format(MountDate(today))
  /\ viewMode = "2_WEEKS"
  /\ isLoading = FALSE
  /\ jobs = <<>>
  /\ effectDue = FALSE
  /\ clock = 0
  /\ edits = 0
  /\ isOpen = FALSE
  /\ optimizerIsLoading = FALSE
  /\ inFlight = <<>>
  /\ lastResponse = NoResponse
  /\ toasts = ""
  /\ settings = INITIAL_SETTINGS
  /\ allocatedSchedule = <<>>
  /\ heap = <<>>
  /\ jobsToAllocate = 0
  /\ planningStartDateString = NoDate
  /\ updatedJobs = 0
  /\ planningStartDate = InvalidDate
  /\ jobIndex = 0
  /\ remainingHours = Zero
  /\ currentDate = InvalidDate
  /\ dateStr = NoDate
  /\ dayCapacity = Zero
  /\ safetyCounter = 0
  /\ warnings = <<>>
  /\ pc = "idle"
  /\ calls = 0
  /\ argAtCall = <<>>
  /\ previous = NoResult
  /\ RangeIdle

\* what a press leaves alone
navigationRest ==
  <<settings, today, allocatedSchedule, jobs, isLoading, effectDue, clock,
    isOpen, optimizerIsLoading, inFlight, lastResponse, toasts,
    allocatorRest, rangeVars>>

\* the Next button (handleNext)
PressNext ==
  /\ edits < MaxPresses
  /\ currentPlanningDate' = handleNext(currentPlanningDate, viewMode)
  /\ edits' = edits + 1
  /\ UNCHANGED <<viewMode, navigationRest>>

\* the Prev button (handlePrev); a handler that throws sets no state
PressPrev ==
  /\ edits < MaxPresses
  /\ currentPlanningDate' = handlePrev(currentPlanningDate, viewMode).date
  /\ edits' = edits + 1
  /\ UNCHANGED <<viewMode, navigationRest>>

\* the view toggle
PressToggle ==
  /\ edits < MaxPresses
  /\ viewMode' = IF viewMode = "MONTH" THEN "2_WEEKS" ELSE "MONTH"
  /\ edits' = edits + 1
  /\ UNCHANGED <<currentPlanningDate, navigationRest>>

NextNavigation ==
  \/ PressNext
  \/ PressPrev
  \/ PressToggle

SpecNavigation ==
  InitNavigation /\ [][NextNavigation]_vars

\* C29: once set, the current planning date is a Monday..Friday in every
\* state reached by presses of Next, Prev and the view toggle, in both view
\* modes.
PlanningDateIsAWeekday ==
  /\ currentPlanningDate # NoDate
  /\ IsWeekdayString(currentPlanningDate)

\* in month view Next has led from May 2024 or earlier to Monday 2024-06-03,
\* the first weekday of a month that begins on a Saturday
NextIntoMonthBeginningOnSaturday ==
  /\ viewMode = "MONTH"
  /\ edits >= 2
  /\ today < parseISO(<<2024, 6, 1>>)
  /\ currentPlanningDate = <<2024, 6, 3>>

\* the number of the month of a date string, counted in months
MonthNumber(str) ==
  str[1] * 12 + (str[2] - 1)

\* the date string of the first Monday..Friday of month number n
FirstWeekdayOfMonth(n) ==
  format(NextWeekday(parseISO(<<n \div 12, (n % 12) + 1, 1>>)))

\* C30, as claimed: in month view Prev leads to the first weekday of the
\* month before the planning date's month and Next to the first weekday of
\* the month after it, and Next followed by Prev leads to the first weekday
\* of the planning date's own month.
MonthNavigationByOneMonth ==
  viewMode = "MONTH" =>
    LET n == MonthNumber(currentPlanningDate)
        afterNext == handleNext(currentPlanningDate, viewMode)
    IN /\ handlePrev(currentPlanningDate, viewMode).date = FirstWeekdayOfMonth(n - 1)
       /\ afterNext = FirstWeekdayOfMonth(n + 1)
       /\ handlePrev(afterNext, viewMode).date = FirstWeekdayOfMonth(n)

====
